---- MODULE Spec2Model ----
(***************************************************************************)
(* Verification model of the Cursor Agent protocol gateway                 *)
(* (Yukaii/opencode-cursor-auth).                                          *)
(*                                                                         *)
(* Bytes are naturals 0..255, byte strings are sequences of bytes.         *)
(* Offsets are 0-based as in the TypeScript source; At(data, i) reads      *)
(* data[i].                                                                *)
(*                                                                         *)
(* Spec        the RunSSE read loop of the interaction-query script        *)
(*             (src/unnamed/part_001, main): accumulate, extract frames,   *)
(*             dispatch the fields of each data frame.                     *)
(* SpecEngine  one turn of the protocol engine: the bytes of a backend     *)
(*             response arrive in chunks, frames are pulled off the buffer *)
(*             and mapped to TextDelta, ToolInvocation, Done and Error.    *)
(* SpecSession the turns of a conversation: each inbound request is        *)
(*             classified Fresh or Continuing against the Session store    *)
(*             and sent to the backend.                                    *)
(* SpecTools   SpecEngine's turn on one exec request of every kind and     *)
(*             argument shape, for the tool name table.                    *)
(* SpecCodec   runs of the wire codec: varint, dynamic value, Connect     *)
(*             envelope and field list, each encoded and decoded again.    *)
(* SpecMapper  inbound message lists mapped to backend requests:           *)
(*             instructions, role values, message IDs, tool references.    *)
(* SpecRequest the first-turn run request as main() and the                *)
(*             message-comparison script build it.                         *)
(* SpecCollect collectStreamText over the chunks of a chat stream.         *)
(* SpecAuth    the entry points that ask for the access token: main(),     *)
(*             the test client and the auth interceptor.                   *)
(* SpecPool    pipelines running at the same time over one Session store.  *)
(* SpecAnomaly Spec's read loop on streams with an error frame, a field    *)
(*             to skip or a field cut short.                               *)
(* SpecScheduled Spec with the 30 s abort timer firing while the loop      *)
(*             still reads.                                                *)
(* SpecFramer  the inner frame loop on one buffer, pass by pass, on        *)
(*             headers with every kind of length.                          *)
(* SpecCred    the calls of one FileCredentialManager on one auth file.    *)
(* SpecModels  the model-list parser of fetch-models.ts, pass by pass.     *)
(* SpecMask    maskToken of the status command on tokens of the lengths    *)
(*             around its cuts.                                            *)
(***************************************************************************)
EXTENDS Integers, Sequences, FiniteSets, TLC

\* ------------------------------------------------------------------ bounds

\* Most frames the backend puts into one response stream.
MaxFrames == 2

\* Most turns of one conversation.
MaxTurns == 3

\* Most items of a list of atoms among the dynamic values.
MaxItems == 2

\* Most messages of one inbound request.
MaxMsgs == 3

\* The UUID samples a run draws its two UUIDs from.
MaxUuids == 6

\* Most chunks one chat stream yields.
MaxYield == 3

\* Most calls of the entry points that ask for the access token.
MaxCalls == 3

\* Most pipelines running at the same time.
MaxPipelines == 3

\* Most field occurrences in a message given to the field decoder.
MaxFields == 3

\* Most passes of the frame loop over one buffer that are followed.
MaxPasses == 6

\* Most bytes of a sampled model-list response.
MaxListBytes == 3

\* Longest sampled token shown by the status command.
MaxTokenLength == 22

\* Most calls of the methods of one credential manager.
MaxCredCalls == 4

\* ------------------------------------------------------- program constants

\* `if (chunks > 50)`: the read loop gives up after this many chunks.
MaxChunks == 50

\* ------------------------------------------------------------ byte helpers

At(data, i) == data[i + 1]

Min(a, b) == IF a < b THEN a ELSE b

Max(a, b) == IF a > b THEN a ELSE b

\* Uint8Array.prototype.slice(start, end): negative indices count from the
\* end, both are clamped to 0..length, an empty range gives an empty array.
Slice(data, start, end) ==
  LET n  == Len(data)
      s  == IF start < 0 THEN Max(n + start, 0) ELSE Min(start, n)
      e  == IF end < 0 THEN Max(n + end, 0) ELSE Min(end, n)
  IN  IF e <= s THEN << >> ELSE SubSeq(data, s + 1, e)

\* slice(start) with the end left out.
SliceFrom(data, start) == Slice(data, start, Len(data))

RECURSIVE Flatten(_)
Flatten(seqs) ==
  IF seqs = << >> THEN << >> ELSE Head(seqs) \o Flatten(Tail(seqs))

\* concatBytes(...arrays)
concatBytes(arrays) == Flatten(arrays)

\* ------------------------------------------------------------- wire codec

\* encodeVarint: 7 bits per byte, low group first, 0x80 on all but the last.
RECURSIVE encodeVarint(_)
encodeVarint(v) ==
  IF v > 127 THEN <<(v % 128) + 128>> \o encodeVarint(v \div 128) ELSE <<v>>

\* The loop of decodeVarint (BigInt arithmetic, so no width limit): mul is
\* 2^shift.
RECURSIVE decodeVarintLoop(_, _, _, _, _)
decodeVarintLoop(data, offset, value, mul, bytesRead) ==
  IF offset + bytesRead < Len(data)
  THEN LET byte == At(data, offset + bytesRead)
           v2   == value + (byte % 128) * mul
       IN  IF byte < 128
           THEN [value |-> v2, bytesRead |-> bytesRead + 1]
           ELSE decodeVarintLoop(data, offset, v2, mul * 128, bytesRead + 1)
  ELSE [value |-> value, bytesRead |-> bytesRead]

decodeVarint(data, offset) == decodeVarintLoop(data, offset, 0, 1, 0)

\* ---- the same two functions over the whole BigInt range of a uint64 ----
\*
\* A BigInt is a list of 16-bit limbs, least significant first: four limbs
\* for a uint64, five for what decodeVarint accumulates from ten bytes.

LimbBase == 65536

RECURSIVE Pow2(_)
Pow2(n) == IF n = 0 THEN 1 ELSE 2 * Pow2(n - 1)

\* v > 127n
bigGt127(v) == v[1] > 127 \/ \E i \in 2..Len(v) : v[i] > 0

\* v >> 7n done on 32 bits only (the limbs above the second are lost).
bigShr7Low32(v) ==
  <<v[1] \div 128 + (v[2] % 128) * 512, v[2] \div 128, 0, 0>>

\* v >>= 7n
bigShr7(v) ==
  <<v[1] \div 128 + (v[2] % 128) * 512,
    v[2] \div 128 + (v[3] % 128) * 512,
    v[3] \div 128 + (v[4] % 128) * 512,
    v[4] \div 128>>

\* Limb k of value | (group << shift), where limb i is the one the shift
\* falls into: the bits at shift and above are still 0, so the OR is an
\* addition into the two limbs the group touches.
orLimb(value, k, i, x) ==
  IF k = i THEN value[k] + (x % LimbBase)
  ELSE IF k = i + 1 THEN value[k] + (x \div LimbBase)
  ELSE value[k]

\* value |= BigInt(byte & 0x7f) << shift
bigOrShifted(value, group, shift) ==
  LET i == shift \div 16 + 1
      x == group * Pow2(shift % 16)
  IN  <<orLimb(value, 1, i, x), orLimb(value, 2, i, x),
        orLimb(value, 3, i, x), orLimb(value, 4, i, x),
        orLimb(value, 5, i, x)>>

\* encodeVarint on a BigInt.
RECURSIVE encodeVarintBigInt(_)
encodeVarintBigInt(v) ==
  IF bigGt127(v)
  THEN <<(v[1] % 128) + 128>> \o encodeVarintBigInt(bigShr7(v))
  ELSE <<v[1]>>

\* The loop of decodeVarint on a BigInt.
RECURSIVE decodeVarintBigIntLoop(_, _, _, _, _)
decodeVarintBigIntLoop(data, offset, value, shift, bytesRead) ==
  IF offset + bytesRead < Len(data)
  THEN LET byte == At(data, offset + bytesRead)
           v2   == bigOrShifted(value, byte % 128, shift)
       IN  IF byte < 128
           THEN [value |-> v2, bytesRead |-> bytesRead + 1]
           ELSE decodeVarintBigIntLoop(data, offset, v2, shift + 7,
                                       bytesRead + 1)
  ELSE [value |-> value, bytesRead |-> bytesRead]

decodeVarintBigInt(data, offset) ==
  decodeVarintBigIntLoop(data, offset, <<0, 0, 0, 0, 0>>, 0, 0)

\* ---- decodeVarint with Number arithmetic (the scripts' own copies) ----
\*
\* `|=` and `<<` work on signed 32-bit integers and `<<` takes its count
\* modulo 32.  A 32-bit integer is kept as the set of its bits.

BitsOf(g) == {i \in 0..6 : (g \div Pow2(i)) % 2 = 1}

\* (byte & 0x7f) << shift
shiftedBits(g, shift) ==
  {i + (shift % 32) : i \in {k \in BitsOf(g) : k + (shift % 32) <= 31}}

RECURSIVE SumPow2(_)
SumPow2(bits) ==
  IF bits = {} THEN 0
  ELSE LET i == CHOOSE k \in bits : TRUE
       IN  Pow2(i) + SumPow2(bits \ {i})

\* The signed value of the 32 bits.
ToInt32(bits) ==
  IF 31 \in bits THEN (SumPow2(bits \ {31}) - 2147483647) - 1
  ELSE SumPow2(bits)

\* The loop of the script's decodeVarint.
RECURSIVE decodeVarintNumberLoop(_, _, _, _)
decodeVarintNumberLoop(bytes, at, bits, shift) ==
  IF at < Len(bytes)
  THEN LET byte == At(bytes, at)
           b2   == bits \cup shiftedBits(byte % 128, shift)
       IN  IF byte < 128
           THEN [value |-> ToInt32(b2), newOffset |-> at + 1]
           ELSE decodeVarintNumberLoop(bytes, at + 1, b2, shift + 7)
  ELSE [value |-> ToInt32(bits), newOffset |-> at]

decodeVarintNumber(bytes, offset) ==
  decodeVarintNumberLoop(bytes, offset, {}, 0)

\* A number stored into an element of a Uint8Array keeps its low 8 bits
\* (`result[0] = fieldTag`).
ToUint8(v) == v % 256

\* encodeStringField of the script: a one-byte tag, the length, the bytes
\* (the string is given as its UTF-8 bytes).
encodeStringField(fieldNumber, value) ==
  <<ToUint8(fieldNumber * 8 + 2)>> \o encodeVarint(Len(value)) \o value

\* encodeMessageField: always present, also when data is empty.
encodeMessageField(fieldNumber, data) ==
  <<ToUint8(fieldNumber * 8 + 2)>> \o encodeVarint(Len(data)) \o data

\* encodeInt32Field: nothing for 0, else tag and varint.
encodeInt32Field(fieldNumber, value) ==
  IF value = 0 THEN << >> ELSE <<ToUint8(fieldNumber * 8)>> \o encodeVarint(value)

\* encodeInt64Field: tag and varint, also for 0.
encodeInt64Field(fieldNumber, value) ==
  <<ToUint8(fieldNumber * 8)>> \o encodeVarint(value)

\* encodeMessageFieldSkipEmpty: `if (data.length === 0) return new
\* Uint8Array(0)`, so an empty message gives no bytes at all.
encodeMessageFieldSkipEmpty(fieldNumber, data) ==
  IF Len(data) = 0 THEN << >>
  ELSE <<ToUint8(fieldNumber * 8 + 2)>> \o encodeVarint(Len(data)) \o data

\* ---- the dynamic-value encoder (google.protobuf.Value) ----

\* encodeStringField of the tool-encoding script: `if (!value) return
\* new Uint8Array(0)`, so an empty string gives no bytes at all.
encodeStringFieldSkipEmpty(fieldNumber, value) ==
  IF value = << >> THEN << >>
  ELSE <<ToUint8(fieldNumber * 8 + 2)>> \o encodeVarint(Len(value)) \o value

\* encodeBoolField: tag and one byte, also for false.
encodeBoolField(fieldNumber, value) ==
  <<ToUint8(fieldNumber * 8), IF value THEN 1 ELSE 0>>

\* encodeUint32Field: nothing for 0, else tag and varint.
encodeUint32Field(fieldNumber, value) ==
  IF value = 0 THEN << >> ELSE <<ToUint8(fieldNumber * 8)>> \o encodeVarint(value)

\* floor(log2 n) for n >= 1.
RECURSIVE log2(_)
log2(n) == IF n < 2 THEN 0 ELSE 1 + log2(n \div 2)

\* view.setFloat64(1, value, true) for an integer 0 <= value < 4096: the
\* eight bytes of the IEEE 754 double, least significant first.  The
\* exponent is 1023 + floor(log2 value), the fraction (value - 2^e) sits in
\* the top 12 of the 52 fraction bits.
float64LE(value) ==
  IF value = 0 THEN <<0, 0, 0, 0, 0, 0, 0, 0>>
  ELSE LET e     == log2(value)
           exp   == 1023 + e
           top12 == (value - Pow2(e)) * Pow2(12 - e)
       IN  <<0, 0, 0, 0, 0, top12 % 256,
             (exp % 16) * 16 + (top12 \div 256), exp \div 16>>

\* encodeDoubleField: tag (wire type 1) and the eight bytes.
encodeDoubleField(fieldNumber, value) ==
  <<ToUint8(fieldNumber * 8 + 1)>> \o float64LE(value)

\* encodeProtobufValue.  A value is a record tagged by t: "null", "num"
\* (n), "str" (s, its UTF-8 bytes), "bool" (b), "list" (items) or "map"
\* (entries, each a key and a val, in Object.entries order).
RECURSIVE encodeProtobufValue(_)
encodeProtobufValue(value) ==
  CASE value.t = "null" -> encodeUint32Field(1, 0)
    [] value.t = "num"  -> encodeDoubleField(2, value.n)
    [] value.t = "str"  -> encodeStringFieldSkipEmpty(3, value.s)
    [] value.t = "bool" -> encodeBoolField(4, value.b)
    [] value.t = "list" ->
         encodeMessageField(6,
           Flatten([i \in 1..Len(value.items) |->
             encodeMessageField(1, encodeProtobufValue(value.items[i]))]))
    [] value.t = "map"  ->
         encodeMessageField(5,
           Flatten([i \in 1..Len(value.entries) |->
             encodeMessageField(1,
               encodeStringFieldSkipEmpty(1, value.entries[i].key)
                 \o encodeMessageField(2,
                      encodeProtobufValue(value.entries[i].val)))]))

\* The body of parseProtoFields' while loop, from `offset` on.
RECURSIVE parseProtoFieldsFrom(_, _, _)
parseProtoFieldsFrom(data, offset, fields) ==
  IF offset >= Len(data) THEN fields
  ELSE
    LET tagInfo     == decodeVarint(data, offset)
        o1          == offset + tagInfo.bytesRead
        fieldNumber == tagInfo.value \div 8
        wireType    == tagInfo.value % 8
    IN  CASE wireType = 2 ->
               LET lengthInfo == decodeVarint(data, o1)
                   o2         == o1 + lengthInfo.bytesRead
                   len        == lengthInfo.value
               IN  parseProtoFieldsFrom(data, o2 + len,
                     Append(fields,
                       [fieldNumber |-> fieldNumber, wireType |-> 2,
                        bytes |-> Slice(data, o2, o2 + len), varint |-> 0,
                        offset |-> offset, length |-> o2 + len - offset]))
          [] wireType = 0 ->
               LET valueInfo == decodeVarint(data, o1)
                   o2        == o1 + valueInfo.bytesRead
               IN  parseProtoFieldsFrom(data, o2,
                     Append(fields,
                       [fieldNumber |-> fieldNumber, wireType |-> 0,
                        bytes |-> << >>, varint |-> valueInfo.value,
                        offset |-> offset, length |-> o2 - offset]))
          [] wireType = 1 ->
               parseProtoFieldsFrom(data, o1 + 8,
                 Append(fields,
                   [fieldNumber |-> fieldNumber, wireType |-> 1,
                    bytes |-> Slice(data, o1, o1 + 8), varint |-> 0,
                    offset |-> offset, length |-> 8]))
          [] wireType = 5 ->
               parseProtoFieldsFrom(data, o1 + 4,
                 Append(fields,
                   [fieldNumber |-> fieldNumber, wireType |-> 5,
                    bytes |-> Slice(data, o1, o1 + 4), varint |-> 0,
                    offset |-> offset, length |-> 4]))
          [] OTHER -> fields

\* parseProtoFields that keeps one entry per field number, the last one (a
\* field-number-keyed object instead of a list).
parseProtoFieldsByNumber(data) ==
  LET all == parseProtoFieldsFrom(data, 0, << >>)
      last(i) == \A j \in (i + 1)..Len(all) :
                   all[j].fieldNumber # all[i].fieldNumber
      keep == {i \in 1..Len(all) : last(i)}
      RECURSIVE pick(_)
      pick(i) == IF i > Len(all) THEN << >>
                 ELSE (IF i \in keep THEN <<all[i]>> ELSE << >>) \o pick(i + 1)
  IN  pick(1)

\* parseProtoFields(data): every field occurrence, in order.
parseProtoFields(data) == parseProtoFieldsFrom(data, 0, << >>)

\* ---- the dynamic-value decoder ----
\*
\* The decoder's source is not among the files at hand; it reads a
\* google.protobuf.Value as the encoder above lays it out.

\* The integer a double's eight bytes stand for (the inverse of float64LE
\* on its range).
decodeFloat64(b) ==
  LET exp   == b[8] * 16 + (b[7] \div 16)
      e     == exp - 1023
      top12 == (b[7] % 16) * 256 + b[6]
  IN  IF exp = 0 THEN 0 ELSE Pow2(e) + (top12 \div Pow2(12 - e))

\* The bytes of the first field n with wire type 2, empty when absent.
fieldBytes(fields, n) ==
  LET fs == SelectSeq(fields, LAMBDA f : f.fieldNumber = n /\ f.wireType = 2)
  IN  IF fs = << >> THEN << >> ELSE fs[1].bytes

\* The fields n with wire type 2, in order.
repeatedBytes(fields, n) ==
  LET fs == SelectSeq(fields, LAMBDA f : f.fieldNumber = n /\ f.wireType = 2)
  IN  [i \in 1..Len(fs) |-> fs[i].bytes]

\* decodeDynamicValue: the kind is the field that is set; no field set is
\* null.
RECURSIVE decodeDynamicValue(_)
decodeDynamicValue(bytes) ==
  LET fs == parseProtoFields(bytes)
  IN  IF fs = << >> THEN [t |-> "null"]
      ELSE LET f == fs[Len(fs)]
           IN  CASE f.fieldNumber = 2 /\ f.wireType = 1 ->
                      [t |-> "num", n |-> decodeFloat64(f.bytes)]
                 [] f.fieldNumber = 3 /\ f.wireType = 2 ->
                      [t |-> "str", s |-> f.bytes]
                 [] f.fieldNumber = 4 /\ f.wireType = 0 ->
                      [t |-> "bool", b |-> f.varint # 0]
                 [] f.fieldNumber = 5 /\ f.wireType = 2 ->
                      LET es == repeatedBytes(parseProtoFields(f.bytes), 1)
                      IN  [t |-> "map",
                           entries |->
                             [i \in 1..Len(es) |->
                                [key |-> fieldBytes(parseProtoFields(es[i]), 1),
                                 val |-> decodeDynamicValue(
                                   fieldBytes(parseProtoFields(es[i]), 2))]]]
                 [] f.fieldNumber = 6 /\ f.wireType = 2 ->
                      LET is == repeatedBytes(parseProtoFields(f.bytes), 1)
                      IN  [t |-> "list",
                           items |-> [i \in 1..Len(is) |->
                                        decodeDynamicValue(is[i])]]
                 [] OTHER -> [t |-> "null"]

\* --------------------------------------------------------- envelope framer

\* data[i] used in a bitwise expression: an index outside the array reads
\* undefined, which `<<`, `|` and `?? 0` turn into 0.
U8(data, i) == IF i >= 0 /\ i < Len(data) THEN At(data, i) ELSE 0

\* The 4 length bytes as the script computes them: `<<` and `|` give a
\* signed 32-bit integer, so a first length byte of 0x80 or more makes the
\* length negative (its top bit is the sign: the byte counts as b - 256).
frameLength(buf, offset) ==
  LET b1 == U8(buf, offset + 1)
  IN  (IF b1 >= 128 THEN b1 - 256 ELSE b1) * 16777216
        + U8(buf, offset + 2) * 65536
        + U8(buf, offset + 3) * 256 + U8(buf, offset + 4)

\* nextFrame with `>=` for `>` in the completeness test: a frame that ends
\* exactly at the end of the buffer is left in it.
nextFrameOffByOne(buf, offset) ==
  IF offset + 5 <= Len(buf)
       /\ ~(offset + 5 + frameLength(buf, offset) >= Len(buf))
  THEN [complete |-> TRUE, flags |-> U8(buf, offset),
        payload |-> Slice(buf, offset + 5,
                          offset + 5 + frameLength(buf, offset)),
        next |-> offset + 5 + frameLength(buf, offset)]
  ELSE [complete |-> FALSE, flags |-> 0, payload |-> << >>, next |-> offset]

\* nextFrame without the completeness test: a frame is taken as soon as its
\* header is there, with whatever part of its payload has arrived.
nextFrameNoWait(buf, offset) ==
  IF offset + 5 <= Len(buf)
  THEN [complete |-> TRUE, flags |-> U8(buf, offset),
        payload |-> Slice(buf, offset + 5,
                          offset + 5 + frameLength(buf, offset)),
        next |-> offset + 5 + frameLength(buf, offset)]
  ELSE [complete |-> FALSE, flags |-> 0, payload |-> << >>, next |-> offset]

\* `offset + 5 + length > fullBuffer.length`.  The sum is exact in the
\* script (a double); it is compared here with the offset on the side
\* where the numbers stay within 32 bits.
pastEnd(buf, offset) ==
  IF offset >= 0 THEN frameLength(buf, offset) > Len(buf) - offset - 5
  ELSE offset + 5 + frameLength(buf, offset) > Len(buf)

\* One pass of `while (offset + 5 <= fullBuffer.length)`: the frame at
\* offset when its header and its whole payload are buffered (complete),
\* else the `break` that leaves the bytes where they are.
nextFrame(buf, offset) ==
  IF offset + 5 <= Len(buf) /\ ~pastEnd(buf, offset)
  THEN [complete |-> TRUE, flags |-> U8(buf, offset),
        payload |-> Slice(buf, offset + 5,
                          offset + 5 + frameLength(buf, offset)),
        next |-> offset + 5 + frameLength(buf, offset)]
  ELSE [complete |-> FALSE, flags |-> 0, payload |-> << >>, next |-> offset]

\* The whole inner loop: every complete frame from offset on, in order, and
\* the offset it stops at.
RECURSIVE extractFrames(_, _, _)
extractFrames(buf, offset, acc) ==
  LET f == nextFrame(buf, offset)
  IN  IF f.complete
      THEN extractFrames(buf, f.next,
             Append(acc, [flags |-> f.flags, payload |-> f.payload]))
      ELSE [frames |-> acc, offset |-> offset]

\* IsTrailer that tests bit 0x40.
IsTrailerBit6(flags) == (flags \div 64) % 2 = 1

\* (flags ?? 0) & 0x80
IsTrailer(flags) == (flags \div 128) % 2 = 1

\* ConnectFrame with the length bytes least significant first.
ConnectFrameLE(flags, payload) ==
  LET n == Len(payload)
  IN  <<flags, n % 256, (n \div 256) % 256, (n \div 65536) % 256,
        (n \div 16777216) % 256>> \o payload

\* A frame as the backend writes it: [flags:1][length:4 big-endian][payload].
ConnectFrame(flags, payload) ==
  LET n == Len(payload)
  IN  <<flags, (n \div 16777216) % 256, (n \div 65536) % 256,
        (n \div 256) % 256, n % 256>> \o payload

\* ------------------------------------------------- dispatch of a data frame

\* TextDecoder('utf-8', {fatal: true}) succeeds; the model's texts are
\* ASCII, a byte of 0x80 or more is taken as an invalid sequence.
Utf8Ok(bytes) == \A i \in 1..Len(bytes) : bytes[i] < 128

\* The fields with number n and wire type 2 (value instanceof Uint8Array).
SubMessages(fields, n) ==
  SelectSeq(fields, LAMBDA f : f.fieldNumber = n /\ f.wireType = 2)

\* The texts process.stdout.write receives for one interaction_update:
\* field 1 (message) -> field 1 (text_delta), non-empty and valid UTF-8.
textDeltasOfMessage(value) ==
  LET mfs == SubMessages(parseProtoFields(value), 1)
  IN  Flatten([i \in 1..Len(mfs) |->
                 IF Utf8Ok(mfs[i].bytes) /\ Len(mfs[i].bytes) > 0
                 THEN <<mfs[i].bytes>> ELSE << >>])

textDeltasOfUpdate(value) ==
  LET ufs == SubMessages(parseProtoFields(value), 1)
  IN  Flatten([i \in 1..Len(ufs) |-> textDeltasOfMessage(ufs[i].bytes)])

\* The texts one data frame writes, over all its top-level fields.
textDeltasOfFrame(frameData) ==
  LET fs == SubMessages(parseProtoFields(frameData), 1)
  IN  Flatten([i \in 1..Len(fs) |-> textDeltasOfUpdate(fs[i].bytes)])

\* Whether a data frame carries a top-level field with this number.
HasField(frameData, n) ==
  LET fs == parseProtoFields(frameData)
  IN  \E i \in 1..Len(fs) : fs[i].fieldNumber = n

\* The data frames among `fs` (those the else branch of the flag test takes).
DataFrames(fs) == SelectSeq(fs, LAMBDA f : ~IsTrailer(f.flags))

TrailerFrames(fs) == SelectSeq(fs, LAMBDA f : IsTrailer(f.flags))

textDeltasOfFrames(fs) ==
  LET ds == DataFrames(fs)
  IN  Flatten([i \in 1..Len(ds) |-> textDeltasOfFrame(ds[i].payload)])

\* new TextDecoder().decode(frameData) of each trailer frame, as logged.
trailerTexts(fs) ==
  LET ts == TrailerFrames(fs)
  IN  [i \in 1..Len(ts) |-> ts[i].payload]

AnyHasField(fs, n) ==
  \E i \in 1..Len(fs) : ~IsTrailer(fs[i].flags) /\ HasField(fs[i].payload, n)

\* ------------------------------------------------ what the backend streams

\* "Hello from Cursor" (the text the script's prompt asks for), "ls" and
\* the trailer's status block, as ASCII bytes.
TextHello ==
  <<72, 101, 108, 108, 111, 32, 102, 114, 111, 109, 32, 67, 117, 114, 115,
    111, 114>>

CommandLs == <<108, 115>>

\* "grpc-status: " followed by the status digit and "\r\n".
TrailerText(status) ==
  <<103, 114, 112, 99, 45, 115, 116, 97, 116, 117, 115, 58, 32>>
    \o <<48 + status>> \o <<13, 10>>

\* AgentServerMessage.interaction_update (1) -> message (1) -> text_delta (1)
TextDeltaMessage(text) ==
  encodeMessageField(1, encodeMessageField(1, encodeStringField(1, text)))

\* AgentServerMessage.exec_server_message (2), holding one argument message
\* under the field number `kind` of its oneof.
ExecServerMessage(kind, arg) ==
  encodeMessageField(2, encodeMessageField(kind, encodeStringField(1, arg)))

\* The same with the argument message given as its bytes.
ExecServerMessageWith(kind, argBytes) ==
  encodeMessageField(2, encodeMessageField(kind, argBytes))

\* The frames a response stream of the script's run is made of.
ScriptFrameKinds ==
  { [flags |-> 0, payload |-> TextDeltaMessage(TextHello)],
    [flags |-> 0, payload |-> ExecServerMessage(2, CommandLs)],
    [flags |-> 128, payload |-> TrailerText(0)] }

\* All sequences of at most n elements of S.
RECURSIVE SeqsUpTo(_, _)
SeqsUpTo(S, n) ==
  IF n = 0 THEN { << >> }
  ELSE LET shorter == SeqsUpTo(S, n - 1)
       IN  shorter \cup { Append(q, x) : q \in shorter, x \in S }

\* The bytes of a list of frames, one after the other.
Wire(fs) == Flatten([i \in 1..Len(fs) |-> ConnectFrame(fs[i].flags, fs[i].payload)])

\* ------------------------------------------------------- the script's run

VARIABLES
  sent,                  \* the frames the backend writes to the RunSSE response
  stream,                \* their bytes: everything the response body carries
  pos,                   \* how many of them reader.read() has handed over
  fullBuffer,            \* let fullBuffer
  chunks,                \* let chunks
  frames,                \* history: (flags, frameData) of each frame extracted
  stdout,                \* the texts given to process.stdout.write, in order
  trailers,              \* the trailer texts logged
  gotInteractionUpdate,
  gotExecServerMessage,
  gotInteractionQuery,
  pc                     \* "reading", then how the loop was left

scriptVars ==
  <<sent, stream, pos, fullBuffer, chunks, frames, stdout, trailers,
    gotInteractionUpdate, gotExecServerMessage, gotInteractionQuery, pc>>

VARIABLES
  eTools,       \* whether the inbound request supplies tool definitions
  eSent,        \* the frames the backend writes for this turn
  eStream,      \* their bytes
  ePos,         \* how many of them the engine has received
  eBuffer,      \* the framer's accumulation buffer
  eFrames,      \* history: the frames the framer has extracted
  events,       \* the BackendEvents handed to the caller, in order
  eExecs,       \* history: the kind of each exec request the mapper decoded
  eLocal,       \* the tools run locally through the ToolExecutor
  eClosed,      \* whether the backend closed the connection on the engine
  ePc           \* "streaming", "ended" (terminal event out), "idle"

engineVars ==
  <<eTools, eSent, eStream, ePos, eBuffer, eFrames, events, eExecs, eLocal,
    eClosed, ePc>>

VARIABLES
  sReuse,       \* CURSOR_SESSION_REUSE: "unset", "0" or "1"
  sStore,       \* the Session store: conversationId and pendingToolCalls
  sUuid,        \* how many conversationIds randomUUID has handed out
  sCalls,       \* how many tool call ids have been issued
  sOut          \* per turn: the inbound body and the request sent for it

sessionVars == <<sReuse, sStore, sUuid, sCalls, sOut>>

VARIABLES
  cIn,          \* the input of a codec run: its kind and its value
  cOut,         \* what the run has computed so far
  cPc           \* "idle", "ready", "encoded", "done"

codecVars == <<cIn, cOut, cPc>>

VARIABLES
  mMsgs,        \* the message list of the latest inbound request
  mOut,         \* what the mapper made of it: rejected, or the request sent
  mSentIds,     \* every message ID sent so far, over all requests
  mUuid         \* how many message IDs randomUUID has handed out

mapperVars == <<mMsgs, mOut, mSentIds, mUuid>>

VARIABLES
  kChunks,      \* the chunks client.chatStream yields, in order
  kPos,         \* how many of them the for-await loop has taken
  result,       \* let result
  kReturn,      \* what the caller of collectStreamText receives
  kPc           \* "collecting", "returned", "thrown", "idle"

collectVars == <<kChunks, kPos, result, kReturn, kPc>>

VARIABLES
  aToken,       \* what credentialManager.getAccessToken() resolves to
  aApiKey,      \* whether credentialManager.getApiKey() finds a key
  aCalls,       \* per call: the entry point, how it ended, what it sent
  aNetwork      \* every request handed to fetch or to next(req), in order

authVars == <<aToken, aApiKey, aCalls, aNetwork>>

VARIABLES
  pStore,       \* the Session store shared by the pipelines
  pUuid,        \* how many conversationIds randomUUID has handed out
  pipes,        \* per pipeline: where it stands and what it holds
  pWritten      \* history: per conversationId the Session its owner put last

poolVars == <<pStore, pUuid, pipes, pWritten>>

VARIABLES
  authFile,            \* the parsed contents of auth.json, or NoFile
  cachedAccessToken,   \* the three private fields of the manager
  cachedRefreshToken,
  cachedApiKey,
  credCall,            \* the last method called and what it returned
  credCalls            \* how many methods have been called

credVars == <<authFile, cachedAccessToken, cachedRefreshToken, cachedApiKey,
              credCall, credCalls>>

ScriptInit ==
  /\ sent \in SeqsUpTo(ScriptFrameKinds, MaxFrames)
  /\ stream = Wire(sent)
  /\ pos = 0
  /\ fullBuffer = << >>
  /\ chunks = 0
  /\ frames = << >>
  /\ stdout = << >>
  /\ trailers = << >>
  /\ gotInteractionUpdate = FALSE
  /\ gotExecServerMessage = FALSE
  /\ gotInteractionQuery = FALSE
  /\ pc = "reading"

\* retainRemainder that starts every chunk with an empty buffer.
retainNothing(newBuffer, offset) == << >>

\* `fullBuffer = fullBuffer.slice(offset)`: keep what follows the last
\* complete frame.
retainRemainder(newBuffer, offset) == SliceFrom(newBuffer, offset)

\* How the loop goes on after a chunk: `if (chunks > 50) break`.
afterChunk(n) == IF n > MaxChunks THEN "maxChunks" ELSE "reading"

\* One iteration of `while (true)` with done = false: value is the next n
\* bytes of the response.
ReadChunk(n) ==
  /\ pc = "reading"
  /\ pos + n <= Len(stream)
  /\ \E got \in {extractFrames(fullBuffer \o SubSeq(stream, pos + 1, pos + n),
                               0, << >>)} :
       /\ fullBuffer' =
            retainRemainder(fullBuffer \o SubSeq(stream, pos + 1, pos + n),
                            got.offset)
       /\ frames' = frames \o got.frames
       /\ stdout' = stdout \o textDeltasOfFrames(got.frames)
       /\ trailers' = trailers \o trailerTexts(got.frames)
       /\ gotInteractionUpdate' =
            (gotInteractionUpdate \/ AnyHasField(got.frames, 1))
       /\ gotExecServerMessage' =
            (gotExecServerMessage \/ AnyHasField(got.frames, 2))
       /\ gotInteractionQuery' =
            (gotInteractionQuery \/ AnyHasField(got.frames, 7))
  /\ pos' = pos + n
  /\ chunks' = chunks + 1
  /\ pc' = afterChunk(chunks + 1)
  /\ UNCHANGED <<sent, stream>>
  /\ UNCHANGED <<engineVars, sessionVars, codecVars, mapperVars, collectVars, authVars, poolVars, credVars>>

\* reader.read() reports done: the backend has closed the response.
StreamDone ==
  /\ pc = "reading"
  /\ pos = Len(stream)
  /\ pc' = "done"
  /\ UNCHANGED <<sent, stream, pos, fullBuffer, chunks, frames, stdout, trailers,
                 gotInteractionUpdate, gotExecServerMessage,
                 gotInteractionQuery>>
  /\ UNCHANGED <<engineVars, sessionVars, codecVars, mapperVars, collectVars, authVars, poolVars, credVars>>

\* A catch block that writes out what is left in the buffer.
onAbortErrorFlush(buffer) == IF buffer = << >> THEN << >> ELSE <<buffer>>

\* What the catch block writes of the bytes still buffered: nothing, it
\* logs 'Request aborted due to timeout' and fullBuffer goes out of scope.
onAbortError(buffer) == << >>

\* The 30 s timer fires: controller.abort() makes the pending read reject
\* with AbortError, which the catch block reports.
Abort ==
  /\ pc = "reading"
  /\ pc' = "aborted"
  /\ stdout' = stdout \o onAbortError(fullBuffer)
  /\ UNCHANGED <<sent, stream, pos, fullBuffer, chunks, frames, trailers,
                 gotInteractionUpdate, gotExecServerMessage,
                 gotInteractionQuery>>
  /\ UNCHANGED <<engineVars, sessionVars, codecVars, mapperVars, collectVars, authVars, poolVars, credVars>>

ScriptNext ==
  \/ \E n \in 1..Len(stream) : ReadChunk(n)
  \/ StreamDone
  \/ Abort

\* The script's variables at rest, for the specifications of other parts.
ScriptIdle ==
  /\ sent = << >>
  /\ stream = << >>
  /\ pos = 0
  /\ fullBuffer = << >>
  /\ chunks = 0
  /\ frames = << >>
  /\ stdout = << >>
  /\ trailers = << >>
  /\ gotInteractionUpdate = FALSE
  /\ gotExecServerMessage = FALSE
  /\ gotInteractionQuery = FALSE
  /\ pc = "idle"

\* ------------------------------------------------- the engine: one turn
\*
\* submit(ChatRequest) -> lazy sequence of BackendEvent.  The engine's own
\* source (src/lib/api/agent-service.ts, src/server.ts, src/plugin/plugin.ts)
\* is not among the files at hand: its event rules follow the specification
\* (4.2-4.4, 5, 7) and docs/TOOL_CALLING_INVESTIGATION.md, over the framer
\* and the field decoding of the script above.

\* ASCII names of the tools as the caller sees them.
NameBash == <<98, 97, 115, 104>>

NameRead == <<114, 101, 97, 100>>

NameWrite == <<119, 114, 105, 116, 101>>

NameList == <<108, 105, 115, 116>>

NameGrep == <<103, 114, 101, 112>>

NameGlob == <<103, 108, 111, 98>>

NameUnknown == <<117, 110, 107, 110, 111, 119, 110>>

\* The oneof field numbers of an exec request.
ExecShell == 2

ExecWrite == 3

ExecGrep == 5

ExecRead == 7

ExecLs == 8

ExecMcp == 11

KnownExecKinds == {ExecShell, ExecWrite, ExecGrep, ExecRead, ExecLs, ExecMcp}

\* flags & 0x02
IsErrorFrame(flags) == (flags \div 2) % 2 = 1

\* The status code of a trailer's status block: the digits that follow
\* "grpc-status: "; a block without that line carries status 0.
RECURSIVE digitsValue(_, _, _)
digitsValue(bytes, i, acc) ==
  IF i <= Len(bytes) /\ bytes[i] >= 48 /\ bytes[i] <= 57
  THEN digitsValue(bytes, i + 1, acc * 10 + (bytes[i] - 48))
  ELSE acc

trailerStatus(payload) ==
  IF Len(payload) >= 13 /\ SubSeq(payload, 1, 13) = SubSeq(TrailerText(0), 1, 13)
  THEN digitsValue(payload, 14, 0)
  ELSE 0

\* The first length-delimited field of an exec request: its number is the
\* kind, its bytes are the arguments.  0 when there is none.
execArgsField(execBytes) ==
  LET fs == SelectSeq(parseProtoFields(execBytes), LAMBDA f : f.wireType = 2)
  IN  IF fs = << >>
      THEN [fieldNumber |-> 0, bytes |-> << >>]
      ELSE [fieldNumber |-> fs[1].fieldNumber, bytes |-> fs[1].bytes]

\* The string field n of an argument message, empty when absent.
argString(argBytes, n) ==
  LET fs == SubMessages(parseProtoFields(argBytes), n)
  IN  IF fs = << >> THEN << >> ELSE fs[1].bytes

\* toolNameOf that names every grep request "grep".
toolNameOfGrepOnly(kind, argBytes) ==
  CASE kind = ExecShell -> NameBash
    [] kind = ExecRead  -> NameRead
    [] kind = ExecWrite -> NameWrite
    [] kind = ExecLs    -> NameList
    [] kind = ExecGrep  -> NameGrep
    [] kind = ExecMcp   -> argString(argBytes, 1)
    [] OTHER            -> NameUnknown

\* toolNameOf that names a request of an unknown kind by its raw kind: the
\* decimal digits of the discriminator.
toolNameOfRawKind(kind, argBytes) ==
  CASE kind = ExecShell -> NameBash
    [] kind = ExecRead  -> NameRead
    [] kind = ExecWrite -> NameWrite
    [] kind = ExecLs    -> NameList
    [] kind = ExecGrep  ->
         IF argString(argBytes, 1) # << >> THEN NameGrep ELSE NameGlob
    [] kind = ExecMcp   -> argString(argBytes, 1)
    [] OTHER            -> <<48 + (kind % 10)>>

\* The name-translation table: shell->bash, read->read, write->write,
\* ls->list, grep with a pattern->grep, grep with a glob->glob, mcp->the
\* original tool name, anything else->"unknown".
toolNameOf(kind, argBytes) ==
  CASE kind = ExecShell -> NameBash
    [] kind = ExecRead  -> NameRead
    [] kind = ExecWrite -> NameWrite
    [] kind = ExecLs    -> NameList
    [] kind = ExecGrep  ->
         IF argString(argBytes, 1) # << >> THEN NameGrep ELSE NameGlob
    [] kind = ExecMcp   -> argString(argBytes, 1)
    [] OTHER            -> NameUnknown

\* TextDelta that loses its text.
TextDeltaEmpty(text) == [type |-> "TextDelta", text |-> << >>]

TextDelta(text) == [type |-> "TextDelta", text |-> text]

ToolInvocation(name, args) ==
  [type |-> "ToolInvocation", name |-> name, args |-> args]

Done(reason) == [type |-> "Done", reason |-> reason]

Error(code, message) == [type |-> "Error", code |-> code, message |-> message]

IsTerminal(e) == e.type \in {"Done", "Error"}

\* emitToolCall without the Done that ends the turn.
emitToolCallNoDone(name, args) == <<ToolInvocation(name, args)>>

\* The events an exec request yields when the request supplied tools: its
\* ToolInvocation, then Done with the tool-calls reason, which ends the turn.
emitToolCall(name, args) == <<ToolInvocation(name, args), Done("tool_calls")>>

\* mapField that forwards an exec request whether or not tools were supplied.
mapFieldForward(st, f, hasTools) ==
  IF st.term THEN st
  ELSE IF f.fieldNumber = 1 /\ f.wireType = 2
  THEN LET texts == textDeltasOfUpdate(f.bytes)
       IN  [st EXCEPT !.events =
              @ \o [i \in 1..Len(texts) |-> TextDelta(texts[i])]]
  ELSE IF f.fieldNumber = 2 /\ f.wireType = 2
  THEN LET arg  == execArgsField(f.bytes)
           name == toolNameOf(arg.fieldNumber, arg.bytes)
       IN  [st EXCEPT !.events =
              @ \o <<ToolInvocation(name, arg.bytes), Done("tool_calls")>>,
                       !.term = TRUE,
                       !.execs = Append(@, arg.fieldNumber)]
  ELSE st

\* One top-level field of a data frame.  st is the pipeline's state:
\* the events so far, whether a terminal event is out, the exec requests
\* decoded, those executed locally, the frames pulled and the buffer.
mapField(st, f, hasTools) ==
  IF st.term THEN st
  ELSE IF f.fieldNumber = 1 /\ f.wireType = 2
  THEN LET texts == textDeltasOfUpdate(f.bytes)
       IN  [st EXCEPT !.events =
              @ \o [i \in 1..Len(texts) |-> TextDelta(texts[i])]]
  ELSE IF f.fieldNumber = 2 /\ f.wireType = 2
  THEN LET arg  == execArgsField(f.bytes)
           name == toolNameOf(arg.fieldNumber, arg.bytes)
       IN  IF hasTools
           THEN [st EXCEPT !.events = @ \o emitToolCall(name, arg.bytes),
                           !.term = TRUE,
                           !.execs = Append(@, arg.fieldNumber)]
           ELSE [st EXCEPT !.local = Append(@, name),
                           !.execs = Append(@, arg.fieldNumber)]
  ELSE st

RECURSIVE mapFields(_, _, _)
mapFields(st, fs, hasTools) ==
  IF fs = << >> THEN st
  ELSE mapFields(mapField(st, Head(fs), hasTools), Tail(fs), hasTools)

\* One frame: a trailer ends the turn with Done (status 0) or Error (its
\* status), an error frame with Error (its payload as the message), a data
\* frame is decoded field by field.
mapFrame(st, frame, hasTools) ==
  IF st.term THEN st
  ELSE IF IsTrailer(frame.flags)
  THEN LET status == trailerStatus(frame.payload)
       IN  [st EXCEPT !.events =
              Append(@, IF status = 0 THEN Done("stop")
                        ELSE Error(status, frame.payload)),
                      !.term = TRUE]
  ELSE IF IsErrorFrame(frame.flags)
  THEN [st EXCEPT !.events = Append(@, Error(0, frame.payload)),
                  !.term = TRUE]
  ELSE mapFields(st, parseProtoFields(frame.payload), hasTools)

\* pullFrames that goes on decoding after a terminal event.
RECURSIVE pullFramesEager(_, _, _)
pullFramesEager(st, buf, hasTools) ==
  LET f == nextFrame(buf, 0)
  IN  IF ~f.complete THEN [st EXCEPT !.buffer = buf]
      ELSE pullFramesEager(
             mapFrame([st EXCEPT !.term = FALSE,
                                 !.frames = Append(@, [flags |-> f.flags,
                                                       payload |-> f.payload])],
                      [flags |-> f.flags, payload |-> f.payload], hasTools),
             SliceFrom(buf, f.next), hasTools)

\* The pull loop: while no terminal event is out, take the next complete
\* frame off the buffer and map it; stop at an incomplete frame and keep
\* the bytes.
RECURSIVE pullFrames(_, _, _)
pullFrames(st, buf, hasTools) ==
  LET f == nextFrame(buf, 0)
  IN  IF st.term \/ ~f.complete THEN [st EXCEPT !.buffer = buf]
      ELSE pullFrames(
             mapFrame([st EXCEPT !.frames = Append(@, [flags |-> f.flags,
                                                       payload |-> f.payload])],
                      [flags |-> f.flags, payload |-> f.payload], hasTools),
             SliceFrom(buf, f.next), hasTools)

\* closeEvent that reports a closed connection as a normal end.
closeEventSilent(buffer) == Done("stop")

\* The backend has closed the connection and no terminal event is out: no
\* trailer was received (a trailer ends the turn), so the stream is
\* truncated, which is an Error, never a silent success.
closeEvent(buffer) == Error(0, << >>)

\* The frames a backend response is made of in the engine's runs.
EngineFrameKinds ==
  { [flags |-> 0, payload |-> TextDeltaMessage(<<111, 107>>)],
    [flags |-> 0, payload |-> encodeMessageField(4, << >>)],
    [flags |-> 128, payload |-> TrailerText(0)],
    [flags |-> 128, payload |-> TrailerText(8)],
    [flags |-> 2, payload |-> <<101, 114, 114>>] }
  \cup { [flags |-> 0, payload |-> ExecServerMessage(k, <<120>>)] :
           k \in KnownExecKinds }

EngineIdle ==
  /\ eTools = FALSE
  /\ eSent = << >>
  /\ eStream = << >>
  /\ ePos = 0
  /\ eBuffer = << >>
  /\ eFrames = << >>
  /\ events = << >>
  /\ eExecs = << >>
  /\ eLocal = << >>
  /\ eClosed = FALSE
  /\ ePc = "idle"

EngineInit ==
  /\ eTools \in BOOLEAN
  /\ eSent \in SeqsUpTo(EngineFrameKinds, MaxFrames)
  /\ eStream = Wire(eSent)
  /\ ePos = 0
  /\ eBuffer = << >>
  /\ eFrames = << >>
  /\ events = << >>
  /\ eExecs = << >>
  /\ eLocal = << >>
  /\ eClosed = FALSE
  /\ ePc = "streaming"

\* Discriminators no known kind has.
UnknownExecKinds == {4, 9}

\* Argument messages of the exec requests of the tool runs: a string "x" or
\* "ab" in field 1 (the command, the path, the pattern, the mcp tool name),
\* a string in field 2 only (a grep request with a glob), no field at all.
ExecArgsOfRuns ==
  { encodeStringField(1, <<120>>), encodeStringField(1, <<97, 98>>),
    encodeStringField(2, <<120>>), << >> }

\* Every exec request frame of the runs.
AllExecFrames ==
  { [flags |-> 0, payload |-> ExecServerMessageWith(k, a)] :
      k \in KnownExecKinds \cup UnknownExecKinds, a \in ExecArgsOfRuns }

\* A tool run: one exec request, alone or behind a text frame.
ToolsInit ==
  /\ eTools \in BOOLEAN
  /\ eSent \in { <<f>> : f \in AllExecFrames }
       \cup { <<[flags |-> 0, payload |-> TextDeltaMessage(<<111, 107>>)], f>> :
                f \in AllExecFrames }
  /\ eStream = Wire(eSent)
  /\ ePos = 0
  /\ eBuffer = << >>
  /\ eFrames = << >>
  /\ events = << >>
  /\ eExecs = << >>
  /\ eLocal = << >>
  /\ eClosed = FALSE
  /\ ePc = "streaming"

\* The next n bytes arrive: append them and pull.
EngineReceive(n) ==
  /\ ePc = "streaming"
  /\ ePos + n <= Len(eStream)
  /\ \E st \in {pullFrames([events |-> events, term |-> FALSE,
                            execs |-> eExecs, local |-> eLocal,
                            frames |-> eFrames, buffer |-> << >>],
                           eBuffer \o SubSeq(eStream, ePos + 1, ePos + n),
                           eTools)} :
       /\ eBuffer' = st.buffer
       /\ eFrames' = st.frames
       /\ events' = st.events
       /\ eExecs' = st.execs
       /\ eLocal' = st.local
       /\ ePc' = IF st.term THEN "ended" ELSE "streaming"
  /\ ePos' = ePos + n
  /\ UNCHANGED <<eTools, eSent, eStream, eClosed>>
  /\ UNCHANGED <<scriptVars, sessionVars, codecVars, mapperVars, collectVars, authVars, poolVars, credVars>>

\* The backend closes the connection (at the end of what it sent, or
\* earlier) while the turn is still streaming.
EngineClose ==
  /\ ePc = "streaming"
  /\ events' = Append(events, closeEvent(eBuffer))
  /\ eClosed' = TRUE
  /\ ePc' = "ended"
  /\ UNCHANGED <<eTools, eSent, eStream, ePos, eBuffer, eFrames, eExecs,
                 eLocal>>
  /\ UNCHANGED <<scriptVars, sessionVars, codecVars, mapperVars, collectVars, authVars, poolVars, credVars>>

EngineNext ==
  \/ \E n \in 1..Len(eStream) : EngineReceive(n)
  \/ EngineClose

\* ------------------------------------------------------ the session store

\* The tool lists an inbound request may carry (name of each definition).
ToolLists == {<< >>, <<"read">>, <<"read", "write">>}

\* The default of CURSOR_SESSION_REUSE.
SessionReuseDefault == "1"

\* Session reuse is on unless the variable is set to 0.
sessionReuseEnabled(env) ==
  (IF env = "unset" THEN SessionReuseDefault ELSE env) # "0"

\* The Sessions that wait for a tool result the body carries.
matchingSessions(body, store) ==
  {s \in store : body.results \cap s.pending # {}}

\* Fresh or Continuing: Continuing when reuse is on and the body's tool
\* results match a Session of the store, Fresh otherwise.
classify(body, store, reuse) ==
  IF reuse /\ matchingSessions(body, store) # {}
  THEN [mode |-> "Continuing",
        conversationId |->
          (CHOOSE s \in matchingSessions(body, store) : TRUE).conversationId]
  ELSE [mode |-> "Fresh", conversationId |-> 0]

\* toolsToPass that drops the tools when the history holds tool results.
toolsStrippedOnResults(body) ==
  IF body.results # {} THEN << >> ELSE body.tools

\* toolsToPass = body.tools
toolsToPass(body) == body.tools

\* The request sent to the backend for an inbound body: under a new
\* conversationId with the whole history (Fresh), or as an append of the
\* tool results to the Session's conversation (Continuing).
outboundRequest(body, cls, uuid) ==
  [mode |-> cls.mode,
   conversationId |-> IF cls.mode = "Fresh" THEN uuid ELSE cls.conversationId,
   tools |-> toolsToPass(body),
   replayed |-> IF cls.mode = "Fresh" THEN body.msgs ELSE 0,
   body |-> body]

\* The store after the turn: the Sessions whose tool results came back are
\* dropped (Fresh) or carried on (Continuing), and the turn's Session waits
\* for the tool calls it has emitted.
storeAfter(store, body, out, newCalls) ==
  {s \in store : body.results \cap s.pending = {}}
    \cup {[conversationId |-> out.conversationId, pending |-> newCalls]}

SessionIdle ==
  /\ sReuse = "unset"
  /\ sStore = {}
  /\ sUuid = 0
  /\ sCalls = 0
  /\ sOut = << >>

SessionInit ==
  /\ sReuse \in {"unset", "0", "1"}
  /\ sStore = {}
  /\ sUuid = 0
  /\ sCalls = 0
  /\ sOut = << >>

\* One turn: an inbound body (its tools, the tool results its history
\* carries, its history) is classified and sent; the turn ends with text
\* ("stop") or, when tools were supplied, possibly with a tool call.
Submit(tools, results, finish) ==
  /\ Len(sOut) < MaxTurns
  /\ finish = "tool_calls" => tools # << >>
  /\ \E body \in {[tools |-> tools, results |-> results,
                   msgs |-> Len(sOut) + 1]} :
     \E out \in {outboundRequest(body,
                   classify(body, sStore, sessionReuseEnabled(sReuse)),
                   sUuid + 1)} :
       /\ sOut' = Append(sOut, out)
       /\ sUuid' = IF out.mode = "Fresh" THEN sUuid + 1 ELSE sUuid
       /\ sCalls' = IF finish = "tool_calls" THEN sCalls + 1 ELSE sCalls
       /\ sStore' = storeAfter(sStore, body, out,
                      IF finish = "tool_calls" THEN {sCalls + 1} ELSE {})
  /\ UNCHANGED sReuse
  /\ UNCHANGED <<scriptVars, engineVars, codecVars, mapperVars, collectVars, authVars, poolVars, credVars>>

SessionNext ==
  \E tools \in ToolLists :
    \E results \in {{}} \cup {{c} : c \in 1..sCalls} :
      \E finish \in {"stop", "tool_calls"} :
        Submit(tools, results, finish)

\* ------------------------------------------------------- the codec's runs
\*
\* One run applies the functions of the wire codec to one input.

\* The limbs the uint64 inputs are made of.
LimbSamples == {0, 1, 127, 128, 16383, 16384, 65535}

VarintInputs ==
  {[kind |-> "varint", u |-> <<a, b, c, d>>] :
     a \in LimbSamples, b \in LimbSamples, c \in LimbSamples,
     d \in LimbSamples}

\* JSON-like values: the atoms, the lists and maps of atoms, and the lists
\* and maps of those.
ValueAtoms ==
  { [t |-> "null"], [t |-> "num", n |-> 0], [t |-> "num", n |-> 1],
    [t |-> "num", n |-> 300], [t |-> "str", s |-> << >>],
    [t |-> "str", s |-> <<97>>], [t |-> "bool", b |-> FALSE],
    [t |-> "bool", b |-> TRUE] }

ValueKeys == {<<107>>, << >>}

ListsOf(S, n) == {[t |-> "list", items |-> q] : q \in SeqsUpTo(S, n)}

MapsOf(S) ==
  {[t |-> "map", entries |-> << >>]}
    \cup {[t |-> "map", entries |-> <<[key |-> k, val |-> x]>>] :
            k \in ValueKeys, x \in S}
    \cup {[t |-> "map", entries |-> <<[key |-> <<107>>, val |-> x],
                                      [key |-> <<108>>, val |-> x]>>] :
            x \in S}

ValuesDepth1 == ValueAtoms \cup ListsOf(ValueAtoms, MaxItems) \cup MapsOf(ValueAtoms)

ValuesDepth2 ==
  ValuesDepth1 \cup ListsOf(ValuesDepth1, 1) \cup MapsOf(ValuesDepth1)

ValueInputs == {[kind |-> "value", v |-> x] : x \in ValuesDepth2}

\* Payloads to wrap: n bytes, all equal to `fill` or counting up from it.
PayloadLengths == {0, 1, 2, 127, 128, 255, 256, 257, 300}

PayloadInputs ==
  {[kind |-> "payload", p |-> [i \in 1..n |-> fill]] :
     n \in PayloadLengths, fill \in {0, 128, 255}}
    \cup {[kind |-> "payload", p |-> [i \in 1..n |-> (fill + i) % 256]] :
            n \in PayloadLengths, fill \in {0, 128}}

\* Field occurrences of a message, one of each wire type the decoder reads:
\* varints (one byte, two bytes), length-delimited values (a string, an
\* empty value, a nested message), a fixed64, a fixed32, and a field
\* number whose tag takes two bytes.
FieldKinds ==
  { [fieldNumber |-> 1, wireType |-> 0, bytes |-> << >>, varint |-> 1],
    [fieldNumber |-> 1, wireType |-> 0, bytes |-> << >>, varint |-> 300],
    [fieldNumber |-> 2, wireType |-> 2, bytes |-> <<111, 107>>, varint |-> 0],
    [fieldNumber |-> 1, wireType |-> 2, bytes |-> << >>, varint |-> 0],
    [fieldNumber |-> 2, wireType |-> 2, bytes |-> <<8, 1>>, varint |-> 0],
    [fieldNumber |-> 3, wireType |-> 1,
     bytes |-> <<1, 2, 3, 4, 5, 6, 7, 8>>, varint |-> 0],
    [fieldNumber |-> 3, wireType |-> 5, bytes |-> <<1, 2, 3, 4>>, varint |-> 0],
    [fieldNumber |-> 16, wireType |-> 0, bytes |-> << >>, varint |-> 0] }

\* The bytes of one field occurrence: the tag, then the value as its wire
\* type lays it out.
occurrenceBytes(f) ==
  encodeVarint(f.fieldNumber * 8 + f.wireType)
    \o CASE f.wireType = 0 -> encodeVarint(f.varint)
          [] f.wireType = 2 -> encodeVarint(Len(f.bytes)) \o f.bytes
          [] OTHER          -> f.bytes

FieldsInputs ==
  {[kind |-> "fields", fs |-> fs] : fs \in SeqsUpTo(FieldKinds, MaxFields)}

\* Field numbers given to the field encoders: the ends of the one-byte
\* tags (1, 15), the first two-byte tags (16, 31), numbers whose tag no
\* longer fits a byte (32, 100) and a large one (2^28 - 1).
FieldNumbers == {1, 15, 16, 31, 32, 100, 268435455}

\* One call of a field encoder of the script: a string or a message with
\* its bytes p, an int32 or an int64 with its value v.
FieldInputs ==
  {[kind |-> "field", enc |-> e, n |-> n, p |-> p, v |-> 0] :
     e \in {"string", "message"}, n \in FieldNumbers,
     p \in {<< >>, <<111, 107>>, <<8, 1>>}}
    \cup {[kind |-> "field", enc |-> "int32", n |-> n, p |-> << >>, v |-> v] :
            n \in FieldNumbers, v \in {1, 300}}
    \cup {[kind |-> "field", enc |-> "int64", n |-> n, p |-> << >>, v |-> v] :
            n \in FieldNumbers, v \in {0, 1, 300}}

\* One call of a scalar field encoder: int32, uint32, int64 and bool with
\* the value v (a bool is 0 or 1), the string encoder of the
\* interaction-query script ("string") and that of the tool-encoding
\* script ("stringSkip") with the bytes p; zero, false and empty included.
ScalarInputs ==
  {[kind |-> "scalar", enc |-> e, n |-> n, p |-> << >>, v |-> v] :
     e \in {"int32", "uint32", "int64"}, n \in {1, 4}, v \in {0, 1, 300}}
    \cup {[kind |-> "scalar", enc |-> "bool", n |-> n, p |-> << >>, v |-> v] :
            n \in {1, 4}, v \in {0, 1}}
    \cup {[kind |-> "scalar", enc |-> e, n |-> n, p |-> p, v |-> 0] :
            e \in {"string", "stringSkip"}, n \in {1, 4},
            p \in {<< >>, <<111, 107>>}}

CodecInputs ==
  VarintInputs \cup ValueInputs \cup PayloadInputs \cup FieldsInputs
    \cup FieldInputs \cup ScalarInputs

CodecIdle ==
  /\ cIn = [kind |-> "none"]
  /\ cOut = [kind |-> "none"]
  /\ cPc = "idle"

CodecInit ==
  /\ cIn \in CodecInputs
  /\ cOut = [kind |-> "none"]
  /\ cPc = "ready"

\* encodeVarint(v)
EncodeVarintRun ==
  /\ cPc = "ready"
  /\ cIn.kind = "varint"
  /\ cOut' = [kind |-> "varint", bytes |-> encodeVarintBigInt(cIn.u)]
  /\ cPc' = "encoded"
  /\ UNCHANGED cIn
  /\ UNCHANGED <<scriptVars, engineVars, sessionVars, mapperVars, collectVars, authVars, poolVars, credVars>>

\* decodeVarint(bytes, 0) of what encodeVarint gave
DecodeVarintRun ==
  /\ cPc = "encoded"
  /\ cIn.kind = "varint"
  /\ cOut' = [kind |-> "varint", bytes |-> cOut.bytes,
              decoded |-> decodeVarintBigInt(cOut.bytes, 0)]
  /\ cPc' = "done"
  /\ UNCHANGED cIn
  /\ UNCHANGED <<scriptVars, engineVars, sessionVars, mapperVars, collectVars, authVars, poolVars, credVars>>

\* The script's Number-based decodeVarint on the same bytes.
DecodeVarintNumberRun ==
  /\ cPc = "done"
  /\ cIn.kind = "varint"
  /\ \E r \in {decodeVarintNumber(cOut.bytes, 0)} :
       cOut' = [kind |-> "varint", bytes |-> cOut.bytes,
                decoded |-> cOut.decoded,
                number |-> [value |-> r.value, bytesRead |-> r.newOffset]]
  /\ cPc' = "compared"
  /\ UNCHANGED cIn
  /\ UNCHANGED <<scriptVars, engineVars, sessionVars, mapperVars, collectVars, authVars, poolVars, credVars>>

\* encodeProtobufValue(v)
EncodeValueRun ==
  /\ cPc = "ready"
  /\ cIn.kind = "value"
  /\ cOut' = [kind |-> "value", bytes |-> encodeProtobufValue(cIn.v)]
  /\ cPc' = "encoded"
  /\ UNCHANGED cIn
  /\ UNCHANGED <<scriptVars, engineVars, sessionVars, mapperVars, collectVars, authVars, poolVars, credVars>>

\* decodeDynamicValue of what encodeProtobufValue gave
DecodeValueRun ==
  /\ cPc = "encoded"
  /\ cIn.kind = "value"
  /\ cOut' = [kind |-> "value", bytes |-> cOut.bytes,
              decoded |-> decodeDynamicValue(cOut.bytes)]
  /\ cPc' = "done"
  /\ UNCHANGED cIn
  /\ UNCHANGED <<scriptVars, engineVars, sessionVars, mapperVars, collectVars, authVars, poolVars, credVars>>

\* The envelope around a payload: flags 0, length, payload.
WrapRun ==
  /\ cPc = "ready"
  /\ cIn.kind = "payload"
  /\ cOut' = [kind |-> "payload", bytes |-> ConnectFrame(0, cIn.p)]
  /\ cPc' = "encoded"
  /\ UNCHANGED cIn
  /\ UNCHANGED <<scriptVars, engineVars, sessionVars, mapperVars, collectVars, authVars, poolVars, credVars>>

\* The framer's loop over these bytes, from an empty buffer.
UnwrapRun ==
  /\ cPc = "encoded"
  /\ cIn.kind = "payload"
  /\ \E got \in {extractFrames(cOut.bytes, 0, << >>)} :
       cOut' = [kind |-> "payload", bytes |-> cOut.bytes,
                frames |-> got.frames,
                rest |-> retainRemainder(cOut.bytes, got.offset)]
  /\ cPc' = "done"
  /\ UNCHANGED cIn
  /\ UNCHANGED <<scriptVars, engineVars, sessionVars, mapperVars, collectVars, authVars, poolVars, credVars>>

\* A message serialised field by field, in the order of its fields.
EncodeFieldsRun ==
  /\ cPc = "ready"
  /\ cIn.kind = "fields"
  /\ cOut' = [kind |-> "fields",
              bytes |-> Flatten([i \in 1..Len(cIn.fs) |->
                                   occurrenceBytes(cIn.fs[i])])]
  /\ cPc' = "encoded"
  /\ UNCHANGED cIn
  /\ UNCHANGED <<scriptVars, engineVars, sessionVars, mapperVars, collectVars, authVars, poolVars, credVars>>

\* parseProtoFields of these bytes
DecodeFieldsRun ==
  /\ cPc = "encoded"
  /\ cIn.kind = "fields"
  /\ cOut' = [kind |-> "fields", bytes |-> cOut.bytes,
              decoded |-> parseProtoFields(cOut.bytes)]
  /\ cPc' = "done"
  /\ UNCHANGED cIn
  /\ UNCHANGED <<scriptVars, engineVars, sessionVars, mapperVars, collectVars, authVars, poolVars, credVars>>

\* encodeStringField, encodeMessageField, encodeInt32Field or
\* encodeInt64Field on one field number and value.
EncodeFieldRun ==
  /\ cPc = "ready"
  /\ cIn.kind = "field"
  /\ cOut' = [kind |-> "field",
              bytes |-> CASE cIn.enc = "string"  -> encodeStringField(cIn.n, cIn.p)
                          [] cIn.enc = "message" -> encodeMessageField(cIn.n, cIn.p)
                          [] cIn.enc = "int32"   -> encodeInt32Field(cIn.n, cIn.v)
                          [] cIn.enc = "int64"   -> encodeInt64Field(cIn.n, cIn.v)]
  /\ cPc' = "encoded"
  /\ UNCHANGED cIn
  /\ UNCHANGED <<scriptVars, engineVars, sessionVars, mapperVars, collectVars, authVars, poolVars, credVars>>

\* parseProtoFields of the encoded field
DecodeFieldRun ==
  /\ cPc = "encoded"
  /\ cIn.kind = "field"
  /\ cOut' = [kind |-> "field", bytes |-> cOut.bytes,
              decoded |-> parseProtoFields(cOut.bytes)]
  /\ cPc' = "done"
  /\ UNCHANGED cIn
  /\ UNCHANGED <<scriptVars, engineVars, sessionVars, mapperVars, collectVars, authVars, poolVars, credVars>>

\* One scalar field encoder on one value.
EncodeScalarRun ==
  /\ cPc = "ready"
  /\ cIn.kind = "scalar"
  /\ cOut' = [kind |-> "scalar",
              bytes |-> CASE cIn.enc = "int32"  -> encodeInt32Field(cIn.n, cIn.v)
                          [] cIn.enc = "uint32" -> encodeUint32Field(cIn.n, cIn.v)
                          [] cIn.enc = "int64"  -> encodeInt64Field(cIn.n, cIn.v)
                          [] cIn.enc = "bool"   -> encodeBoolField(cIn.n, cIn.v = 1)
                          [] cIn.enc = "string" -> encodeStringField(cIn.n, cIn.p)
                          [] cIn.enc = "stringSkip" ->
                               encodeStringFieldSkipEmpty(cIn.n, cIn.p)]
  /\ cPc' = "done"
  /\ UNCHANGED cIn
  /\ UNCHANGED <<scriptVars, engineVars, sessionVars, mapperVars, collectVars, authVars, poolVars, credVars>>

CodecNext ==
  \/ EncodeScalarRun
  \/ EncodeFieldRun
  \/ DecodeFieldRun
  \/ EncodeFieldsRun
  \/ DecodeFieldsRun
  \/ WrapRun
  \/ UnwrapRun
  \/ EncodeVarintRun
  \/ DecodeVarintRun
  \/ DecodeVarintNumberRun
  \/ EncodeValueRun
  \/ DecodeValueRun

\* ------------------------------------------- the mapper, request direction
\*
\* ChatRequest -> backend request.  The mapper's source (encodeChatRequest,
\* messagesToPrompt) is not among the files at hand: the rules follow the
\* specification (3, 4.3) and the API notes.

\* The messages a request of the runs is made of.  id is the message ID the
\* inbound message carries (0: none); toolCallId is "" unless role is tool.
MessageKinds ==
  { [role |-> "system", content |-> "S1", id |-> 0, toolCallId |-> "",
     toolCalls |-> << >>],
    [role |-> "system", content |-> "S2", id |-> 0, toolCallId |-> "",
     toolCalls |-> << >>],
    [role |-> "user", content |-> "U", id |-> 0, toolCallId |-> "",
     toolCalls |-> << >>],
    [role |-> "user", content |-> "U", id |-> 1, toolCallId |-> "",
     toolCalls |-> << >>],
    [role |-> "assistant", content |-> "A", id |-> 2, toolCallId |-> "",
     toolCalls |-> << >>],
    [role |-> "assistant", content |-> "", id |-> 0, toolCallId |-> "",
     toolCalls |-> <<"c1">>],
    [role |-> "tool", content |-> "R", id |-> 0, toolCallId |-> "c1",
     toolCalls |-> << >>],
    [role |-> "tool", content |-> "R", id |-> 1, toolCallId |-> "c2",
     toolCalls |-> << >>] }

\* randomUUID(): the n-th ID it hands out.  No two calls give the same ID
\* and none gives an ID a caller has made up.
GeneratedBase == 100

randomUUID(n) == GeneratedBase + n

\* role map: user=1, assistant=2, system=3; 0 stands for no role value.
roleValueToolAsUser(role) ==
  CASE role = "user"      -> 1
    [] role = "assistant" -> 2
    [] role = "system"    -> 3
    [] OTHER              -> 1

roleValue(role) ==
  CASE role = "user"      -> 1
    [] role = "assistant" -> 2
    [] role = "system"    -> 3
    [] OTHER              -> 0

\* The index of the last system message (0: none).
lastSystemIndex(msgs) ==
  LET is == {i \in 1..Len(msgs) : msgs[i].role = "system"}
  IN  IF is = {} THEN 0 ELSE CHOOSE i \in is : \A j \in is : j <= i

\* The index of the first system message (0: none).
firstSystemIndex(msgs) ==
  LET is == {i \in 1..Len(msgs) : msgs[i].role = "system"}
  IN  IF is = {} THEN 0 ELSE CHOOSE i \in is : \A j \in is : i <= j

\* validToolRefs that looks for the call in every assistant message of the
\* list, later ones included.
validToolRefsAnywhere(msgs) ==
  \A i \in 1..Len(msgs) :
    msgs[i].role = "tool" =>
      \E j \in 1..Len(msgs) :
        /\ msgs[j].role = "assistant"
        /\ \E k \in 1..Len(msgs[j].toolCalls) :
             msgs[j].toolCalls[k] = msgs[i].toolCallId

\* Every tool message names a call of an assistant message before it.
validToolRefs(msgs) ==
  \A i \in 1..Len(msgs) :
    msgs[i].role = "tool" =>
      \E j \in 1..(i - 1) :
        /\ msgs[j].role = "assistant"
        /\ \E k \in 1..Len(msgs[j].toolCalls) :
             msgs[j].toolCalls[k] = msgs[i].toolCallId

\* messageIdFor that keeps the ID the inbound message came with.
messageIdKeepInbound(msg, n) == IF msg.id # 0 THEN msg.id ELSE randomUUID(n)

\* The message ID of an entry: always a new one.
messageIdFor(msg, n) == randomUUID(n)

\* The indices of the messages that become entries: all but the first
\* system message, in order.
RECURSIVE remainingFrom(_, _, _)
remainingFrom(msgs, i, skip) ==
  IF i > Len(msgs) THEN << >>
  ELSE (IF i = skip THEN << >> ELSE <<i>>) \o remainingFrom(msgs, i + 1, skip)

\* The entry of message msgs[i], the k-th ID of this request being free.
\* A tool message carries its call and its result, and no role value; an
\* assistant message carries its tool calls.
entryOf(msgs, i, n) ==
  [src |-> i,
   role |-> roleValue(msgs[i].role),
   content |-> msgs[i].content,
   messageId |-> messageIdFor(msgs[i], n),
   toolCallId |-> msgs[i].toolCallId,
   toolCalls |-> msgs[i].toolCalls]

\* The backend request for a message list, or its rejection.
buildRequest(msgs, uuid) ==
  IF ~validToolRefs(msgs) THEN [status |-> "rejected"]
  ELSE LET sys  == firstSystemIndex(msgs)
           rest == remainingFrom(msgs, 1, sys)
       IN  [status |-> "sent",
            instructions |-> IF sys = 0 THEN "" ELSE msgs[sys].content,
            entries |-> [k \in 1..Len(rest) |->
                           entryOf(msgs, rest[k], uuid + k)]]

MapperIdle ==
  /\ mMsgs = << >>
  /\ mOut = [status |-> "none"]
  /\ mSentIds = << >>
  /\ mUuid = 0

MapperInit == MapperIdle

\* One inbound request: the history of the request before it and the new
\* messages `extra`.
SubmitMessages(extra) ==
  /\ extra # << >>
  /\ Len(mMsgs) + Len(extra) <= MaxMsgs
  /\ \E out \in {buildRequest(mMsgs \o extra, mUuid)} :
       /\ mOut' = out
       /\ mSentIds' = IF out.status = "sent"
                      THEN mSentIds \o [k \in 1..Len(out.entries) |->
                                          out.entries[k].messageId]
                      ELSE mSentIds
       /\ mUuid' = IF out.status = "sent" THEN mUuid + Len(out.entries)
                   ELSE mUuid
  /\ mMsgs' = mMsgs \o extra
  /\ UNCHANGED <<scriptVars, engineVars, sessionVars, codecVars, collectVars, authVars, poolVars, credVars>>

MapperNext ==
  \E extra \in SeqsUpTo(MessageKinds, MaxMsgs) : SubmitMessages(extra)

\* ------------------------------------------- the first-turn run request
\*
\* The request-building steps of main() and of the message-comparison
\* script.  Strings are their UTF-8 bytes.

\* randomUUID() as text: 36 characters, the n-th sample differing in one
\* digit ("0000000n-0000-4000-8000-000000000000").
uuidText(n) ==
  <<48, 48, 48, 48, 48, 48, 48, 48 + n, 45, 48, 48, 48, 48, 45,
    52, 48, 48, 48, 45, 56, 48, 48, 48, 45,
    48, 48, 48, 48, 48, 48, 48, 48, 48, 48, 48, 48>>

\* process.cwd() of the script's run.
WorkspacePaths == {<<47, 119>>, <<47, 104, 111, 109, 101, 47, 117, 47, 112>>}

\* main(): userMessage .. agentRunRequest, with the prompt "Run: echo
\* 'Hello from Cursor'" and the model "claude-3.5-sonnet".
agentRunRequest(messageId, conversationId) ==
  LET userMessage ==
        concatBytes(<<
          encodeStringField(1, <<82, 117, 110, 58, 32, 101, 99, 104, 111, 32, 39, 72,
              101, 108, 108, 111, 32, 102, 114, 111, 109, 32, 67, 117,
              114, 115, 111, 114, 39>>),
          encodeStringField(2, messageId),
          encodeInt32Field(4, 1)>>)
      userMessageAction == encodeMessageField(1, userMessage)
      conversationAction == encodeMessageField(1, userMessageAction)
      modelDetails ==
        encodeStringField(1, <<99, 108, 97, 117, 100, 101, 45, 51, 46, 53, 45, 115,
            111, 110, 110, 101, 116>>)
      emptyConvState == << >>
  IN  concatBytes(<<
        encodeMessageField(1, emptyConvState),
        encodeMessageField(2, conversationAction),
        encodeMessageField(3, modelDetails),
        encodeStringField(5, conversationId)>>)

\* The script's requestContextEnv1 .. conversationAction1, with the
\* prompt "Write a haiku about programming." and the time zone "UTC".
conversationAction1(messageId, workspacePath) ==
  LET requestContextEnv1 ==
        concatBytes(<<
          encodeStringField(1, <<100, 97, 114, 119, 105, 110, 32, 50, 52, 46, 48, 46,
              48>>),
          encodeStringField(2, workspacePath),
          encodeStringField(3, <<47, 98, 105, 110, 47, 122, 115, 104>>),
          encodeStringField(10, <<85, 84, 67>>),
          encodeStringField(11, workspacePath)>>)
      requestContext1 == encodeMessageField(4, requestContextEnv1)
      userMessage1 ==
        concatBytes(<<
          encodeStringField(1, <<87, 114, 105, 116, 101, 32, 97, 32, 104, 97, 105, 107,
              117, 32, 97, 98, 111, 117, 116, 32, 112, 114, 111, 103,
              114, 97, 109, 109, 105, 110, 103, 46>>),
          encodeStringField(2, messageId),
          encodeInt32Field(4, 1)>>)
      userMessageAction1 ==
        concatBytes(<<
          encodeMessageField(1, userMessage1),
          encodeMessageField(2, requestContext1)>>)
  IN  encodeMessageField(1, userMessageAction1)

\* The script's modelDetails1, with the model "gpt-4o".
modelDetails1 == encodeStringField(1, <<103, 112, 116, 45, 52, 111>>)

\* The script's agentRunRequest1 ("test-bidi-chat.ts style").
agentRunRequest1(messageId, conversationId, workspacePath) ==
  concatBytes(<<
    encodeMessageField(1, << >>),
    encodeMessageField(2, conversationAction1(messageId, workspacePath)),
    encodeMessageField(3, modelDetails1),
    encodeStringField(5, conversationId)>>)

\* The script's agentRunRequest2 ("test-exec-flow.ts style").
agentRunRequest2(messageId, conversationId, workspacePath) ==
  concatBytes(<<
    encodeMessageFieldSkipEmpty(1, << >>),
    encodeMessageField(2, conversationAction1(messageId, workspacePath)),
    encodeMessageField(3, modelDetails1),
    encodeStringField(5, conversationId)>>)

\* The runs' inputs: the two UUIDs drawn and the working directory.
RequestInputs ==
  {[kind |-> "uuids", conversationId |-> uuidText(c),
    messageId |-> uuidText(m), workspacePath |-> w] :
     c \in 1..MaxUuids, m \in 1..MaxUuids, w \in WorkspacePaths}

RequestInit ==
  /\ cIn \in {i \in RequestInputs : i.conversationId # i.messageId}
  /\ cOut = [kind |-> "none"]
  /\ cPc = "idle"

\* main() up to agentClientMessage.
BuildRunRequest ==
  /\ cPc = "idle"
  /\ cIn.kind = "uuids"
  /\ \E req \in {agentRunRequest(cIn.messageId, cIn.conversationId)} :
       cOut' = [kind |-> "main", requests |-> <<req>>,
                messages |-> <<encodeMessageField(1, req)>>]
  /\ cPc' = "built"
  /\ UNCHANGED cIn
  /\ UNCHANGED <<scriptVars, engineVars, sessionVars, mapperVars, collectVars, authVars, poolVars, credVars>>

\* The message-comparison script: both run requests and their
\* AgentClientMessages.
CompareMessages ==
  /\ cPc = "idle"
  /\ cIn.kind = "uuids"
  /\ \E req1 \in {agentRunRequest1(cIn.messageId, cIn.conversationId,
                                   cIn.workspacePath)} :
     \E req2 \in {agentRunRequest2(cIn.messageId, cIn.conversationId,
                                   cIn.workspacePath)} :
       cOut' = [kind |-> "comparison", requests |-> <<req1, req2>>,
                messages |-> <<encodeMessageField(1, req1),
                               encodeMessageField(1, req2)>>]
  /\ cPc' = "built"
  /\ UNCHANGED cIn
  /\ UNCHANGED <<scriptVars, engineVars, sessionVars, mapperVars, collectVars, authVars, poolVars, credVars>>

RequestNext == BuildRunRequest \/ CompareMessages

\* ------------------------------------------------ FileCredentialManager
\*
\* A token is a non-empty string; Undefined and Null are the two absent
\* values of the script; NoFile is what readAuthData gives when auth.json
\* is missing or cannot be parsed (null).

Undefined == "undefined"

Null == "null"

NoFile == [missing |-> TRUE]

\* What auth.json may hold before the manager is made: nothing, or an
\* object with any of the three entries.
AuthFiles ==
  {NoFile} \cup
    [accessToken : {Undefined, "a1"}, refreshToken : {Undefined, "r1"},
     apiKey : {Undefined, "k1"}]

\* `x ?? null` and `x || null` on a token or undefined.
orNull(x) == IF x = Undefined THEN Null ELSE x

\* `x || undefined` on a token or null.
orUndefined(x) == IF x = Null THEN Undefined ELSE x

\* The empty object `{}`.
NoCredentials ==
  [accessToken |-> Undefined, refreshToken |-> Undefined, apiKey |-> Undefined]

CredIdle ==
  /\ authFile = NoFile
  /\ cachedAccessToken = Null
  /\ cachedRefreshToken = Null
  /\ cachedApiKey = Null
  /\ credCall = [name |-> "none", returned |-> Undefined]
  /\ credCalls = 0

\* new FileCredentialManager(domain): the three caches are null.
CredInit ==
  /\ authFile \in AuthFiles
  /\ cachedAccessToken = Null
  /\ cachedRefreshToken = Null
  /\ cachedApiKey = Null
  /\ credCall = [name |-> "none", returned |-> Undefined]
  /\ credCalls = 0

\* What getAllCredentials returns: the caches when both tokens are cached,
\* else the file's object, else `{}`.
getAllCredentials(file, access, refresh, apiKey) ==
  IF access # Null /\ refresh # Null
  THEN [accessToken |-> orUndefined(access),
        refreshToken |-> orUndefined(refresh),
        apiKey |-> orUndefined(apiKey)]
  ELSE IF file # NoFile THEN file
  ELSE NoCredentials

SetAuthentication(accessToken, refreshToken, apiKey) ==
  /\ credCalls < MaxCredCalls
  /\ authFile' = [accessToken |-> accessToken, refreshToken |-> refreshToken,
                  apiKey |-> apiKey]
  /\ cachedAccessToken' = accessToken
  /\ cachedRefreshToken' = refreshToken
  /\ cachedApiKey' = orNull(apiKey)
  /\ credCall' = [name |-> "setAuthentication", returned |-> Undefined]
  /\ credCalls' = credCalls + 1
  /\ UNCHANGED <<scriptVars, engineVars, sessionVars, codecVars, mapperVars,
                 collectVars, authVars, poolVars>>

GetAccessToken ==
  /\ credCalls < MaxCredCalls
  /\ IF cachedAccessToken # Null
     THEN /\ credCall' = [name |-> "getAccessToken",
                          returned |-> cachedAccessToken]
          /\ UNCHANGED <<cachedAccessToken, cachedRefreshToken>>
     ELSE IF authFile # NoFile /\ authFile.accessToken # Undefined
     THEN /\ cachedAccessToken' = authFile.accessToken
          /\ cachedRefreshToken' = orNull(authFile.refreshToken)
          /\ credCall' = [name |-> "getAccessToken",
                          returned |-> authFile.accessToken]
     ELSE /\ credCall' = [name |-> "getAccessToken", returned |-> Undefined]
          /\ UNCHANGED <<cachedAccessToken, cachedRefreshToken>>
  /\ credCalls' = credCalls + 1
  /\ UNCHANGED <<authFile, cachedApiKey>>
  /\ UNCHANGED <<scriptVars, engineVars, sessionVars, codecVars, mapperVars,
                 collectVars, authVars, poolVars>>

GetRefreshToken ==
  /\ credCalls < MaxCredCalls
  /\ IF cachedRefreshToken # Null
     THEN /\ credCall' = [name |-> "getRefreshToken",
                          returned |-> cachedRefreshToken]
          /\ UNCHANGED <<cachedAccessToken, cachedRefreshToken>>
     ELSE IF authFile # NoFile /\ authFile.refreshToken # Undefined
     THEN /\ cachedAccessToken' = orNull(authFile.accessToken)
          /\ cachedRefreshToken' = authFile.refreshToken
          /\ credCall' = [name |-> "getRefreshToken",
                          returned |-> authFile.refreshToken]
     ELSE /\ credCall' = [name |-> "getRefreshToken", returned |-> Undefined]
          /\ UNCHANGED <<cachedAccessToken, cachedRefreshToken>>
  /\ credCalls' = credCalls + 1
  /\ UNCHANGED <<authFile, cachedApiKey>>
  /\ UNCHANGED <<scriptVars, engineVars, sessionVars, codecVars, mapperVars,
                 collectVars, authVars, poolVars>>

GetApiKey ==
  /\ credCalls < MaxCredCalls
  /\ IF cachedApiKey # Null
     THEN /\ credCall' = [name |-> "getApiKey", returned |-> cachedApiKey]
          /\ UNCHANGED cachedApiKey
     ELSE IF authFile # NoFile /\ authFile.apiKey # Undefined
     THEN /\ cachedApiKey' = authFile.apiKey
          /\ credCall' = [name |-> "getApiKey", returned |-> authFile.apiKey]
     ELSE /\ credCall' = [name |-> "getApiKey", returned |-> Undefined]
          /\ UNCHANGED cachedApiKey
  /\ credCalls' = credCalls + 1
  /\ UNCHANGED <<authFile, cachedAccessToken, cachedRefreshToken>>
  /\ UNCHANGED <<scriptVars, engineVars, sessionVars, codecVars, mapperVars,
                 collectVars, authVars, poolVars>>

GetAllCredentials ==
  /\ credCalls < MaxCredCalls
  /\ credCall' = [name |-> "getAllCredentials",
                  returned |-> getAllCredentials(authFile, cachedAccessToken,
                                 cachedRefreshToken, cachedApiKey)]
  /\ IF (cachedAccessToken # Null /\ cachedRefreshToken # Null)
          \/ authFile = NoFile
     THEN UNCHANGED <<cachedAccessToken, cachedRefreshToken, cachedApiKey>>
     ELSE /\ cachedAccessToken' = orNull(authFile.accessToken)
          /\ cachedRefreshToken' = orNull(authFile.refreshToken)
          /\ cachedApiKey' = orNull(authFile.apiKey)
  /\ credCalls' = credCalls + 1
  /\ UNCHANGED authFile
  /\ UNCHANGED <<scriptVars, engineVars, sessionVars, codecVars, mapperVars,
                 collectVars, authVars, poolVars>>

ClearAuthentication ==
  /\ credCalls < MaxCredCalls
  /\ authFile' = NoFile
  /\ cachedAccessToken' = Null
  /\ cachedRefreshToken' = Null
  /\ cachedApiKey' = Null
  /\ credCall' = [name |-> "clearAuthentication", returned |-> Undefined]
  /\ credCalls' = credCalls + 1
  /\ UNCHANGED <<scriptVars, engineVars, sessionVars, codecVars, mapperVars,
                 collectVars, authVars, poolVars>>

CredNext ==
  \/ \E k \in {Undefined, "k2"} : SetAuthentication("a2", "r2", k)
  \/ GetAccessToken
  \/ GetRefreshToken
  \/ GetApiKey
  \/ GetAllCredentials
  \/ ClearAuthentication

\* ------------------------------------------- the frame loop, pass by pass
\*
\* The inner loop `while (offset + 5 <= fullBuffer.length)` of the read
\* loop on one buffer, one pass per step, with the offset in the state.

\* Buffers that begin with a header whose length bytes are b1..b4, with
\* up to three bytes behind it: lengths 0 and 2, lengths with the top bit
\* set (0x80000000, 0xFFFFFFFB .. 0xFFFFFFFF) and the largest without it.
HeaderBuffers ==
  { <<0, b1, b23, b23, b4>> \o rest :
      b1 \in {0, 127, 128, 255}, b23 \in {0, 255},
      b4 \in {0, 2, 250, 251, 255},
      rest \in {<< >>, <<1>>, <<1, 2>>, <<1, 2, 3>>} }

FramerInit ==
  /\ cIn \in {[kind |-> "buffer", buf |-> b] : b \in HeaderBuffers}
  /\ cOut = [kind |-> "buffer", offset |-> 0, frames |-> << >>]
  /\ cPc = "framing"

\* One pass that finds a complete frame: slice it and move the offset.
FramePass ==
  /\ cPc = "framing"
  /\ cIn.kind = "buffer"
  /\ Len(cOut.frames) < MaxPasses
  /\ \E f \in {nextFrame(cIn.buf, cOut.offset)} :
       /\ f.complete
       /\ cOut' = [cOut EXCEPT !.offset = f.next,
                               !.frames = Append(@, [flags |-> f.flags,
                                                     payload |-> f.payload])]
  /\ UNCHANGED <<cIn, cPc>>
  /\ UNCHANGED <<scriptVars, engineVars, sessionVars, mapperVars, collectVars, authVars, poolVars, credVars>>

\* The loop ends: fewer than 5 bytes from the offset on, or the `break`
\* of an incomplete frame.
FrameBreak ==
  /\ cPc = "framing"
  /\ cIn.kind = "buffer"
  /\ ~nextFrame(cIn.buf, cOut.offset).complete
  /\ cPc' = "done"
  /\ UNCHANGED <<cIn, cOut>>
  /\ UNCHANGED <<scriptVars, engineVars, sessionVars, mapperVars, collectVars, authVars, poolVars, credVars>>

FramerNext == FramePass \/ FrameBreak

\* ------------------------------------------- the model-list parser
\*
\* fetch-models.ts reads the GetUsableModels response with its own
\* decodeVarint, so tags and lengths are signed 32-bit integers.

\* tag >>> 3 and tag & 0x7 of a signed 32-bit tag
fieldNumberOf(tag) ==
  IF tag >= 0 THEN tag \div 8 ELSE (tag \div 8) + 536870912

wireTypeOf(tag) == tag % 8

\* decodeString: the length, then the slice (the text is kept as bytes).
decodeString(bytes, offset) ==
  LET len == decodeVarintNumber(bytes, offset)
  IN  [value |-> Slice(bytes, len.newOffset, len.newOffset + len.value),
       newOffset |-> len.newOffset + len.value]

\* The sampled responses (the five header bytes already cut off): every
\* byte string up to MaxListBytes over tags, lengths and a continuation
\* byte, a model with its three names, and a field whose length varint
\* has the top bit set.
ListBytes == {0, 1, 2, 5, 8, 10, 18, 128}

RECURSIVE ListsUpTo(_)
ListsUpTo(n) ==
  IF n = 0 THEN {<< >>}
  ELSE LET shorter == ListsUpTo(n - 1)
       IN  shorter \cup {Append(l, b) : l \in shorter, b \in ListBytes}

ModelListInputs ==
  ListsUpTo(MaxListBytes)
    \cup { <<10, 10, 10, 1, 97, 26, 1, 98, 34, 1, 99, 8, 1>>,
           <<10, 4, 8, 1, 34, 0, 18, 1, 7>>,
           <<18, 250, 255, 255, 255, 15>>,
           <<18, 255, 255, 255, 255, 15>> }

ModelsInit ==
  /\ cIn \in {[kind |-> "models", buf |-> b] : b \in ModelListInputs}
  /\ cOut = [kind |-> "models", pos |-> 0, modelPos |-> 0, modelEnd |-> 0,
             modelId |-> << >>, displayModelId |-> << >>,
             displayName |-> << >>, models |-> << >>, passes |-> 0]
  /\ cPc = "parsing"

\* One pass of `while (pos < messageData.length)` up to the inner loop:
\* the tag, then the model's length, a skipped length-delimited field, a
\* skipped varint, or nothing more.  The passes are counted, up to
\* MaxPasses.
OuterPass ==
  /\ cPc = "parsing"
  /\ cIn.kind = "models"
  /\ cOut.passes < MaxPasses
  /\ cOut.pos < Len(cIn.buf)
  /\ LET tag == decodeVarintNumber(cIn.buf, cOut.pos)
         fieldNumber == fieldNumberOf(tag.value)
         wireType == wireTypeOf(tag.value)
         next == decodeVarintNumber(cIn.buf, tag.newOffset)
     IN  IF fieldNumber = 1 /\ wireType = 2
         THEN /\ cOut' = [cOut EXCEPT !.passes = @ + 1,
                                      !.pos = tag.newOffset,
                                      !.modelPos = next.newOffset,
                                      !.modelEnd = next.newOffset + next.value,
                                      !.modelId = << >>,
                                      !.displayModelId = << >>,
                                      !.displayName = << >>]
              /\ cPc' = "model"
         ELSE /\ cOut' = [cOut EXCEPT !.passes = @ + 1, !.pos =
                            IF wireType = 2 THEN next.newOffset + next.value
                            ELSE IF wireType = 0 THEN next.newOffset
                            ELSE tag.newOffset]
              /\ cPc' = "parsing"
  /\ UNCHANGED cIn
  /\ UNCHANGED <<scriptVars, engineVars, sessionVars, mapperVars, collectVars, authVars, poolVars, credVars>>

\* One pass of `while (modelPos < modelEnd)`.
InnerPass ==
  /\ cPc = "model"
  /\ cIn.kind = "models"
  /\ cOut.passes < MaxPasses
  /\ cOut.modelPos < cOut.modelEnd
  /\ LET mTag == decodeVarintNumber(cIn.buf, cOut.modelPos)
         mFieldNumber == fieldNumberOf(mTag.value)
         mWireType == wireTypeOf(mTag.value)
         str == decodeString(cIn.buf, mTag.newOffset)
         num == decodeVarintNumber(cIn.buf, mTag.newOffset)
     IN  cOut' = [cOut EXCEPT
           !.passes = @ + 1,
           !.modelPos = IF mWireType = 2 THEN str.newOffset
                        ELSE IF mWireType = 0 THEN num.newOffset
                        ELSE mTag.newOffset,
           !.modelId = IF mWireType = 2 /\ mFieldNumber = 1
                       THEN str.value ELSE @,
           !.displayModelId = IF mWireType = 2 /\ mFieldNumber = 3
                              THEN str.value ELSE @,
           !.displayName = IF mWireType = 2 /\ mFieldNumber = 4
                           THEN str.value ELSE @]
  /\ UNCHANGED <<cIn, cPc>>
  /\ UNCHANGED <<scriptVars, engineVars, sessionVars, mapperVars, collectVars, authVars, poolVars, credVars>>

\* The inner loop is over: push the model if it has a name, `pos = modelEnd`.
ModelDone ==
  /\ cPc = "model"
  /\ cIn.kind = "models"
  /\ cOut.modelPos >= cOut.modelEnd
  /\ cOut' = [cOut EXCEPT
       !.pos = cOut.modelEnd,
       !.models = IF cOut.modelId # << >> \/ cOut.displayModelId # << >>
                  THEN Append(@, [modelId |-> cOut.modelId,
                                  displayModelId |-> cOut.displayModelId,
                                  displayName |-> cOut.displayName])
                  ELSE @]
  /\ cPc' = "parsing"
  /\ UNCHANGED cIn
  /\ UNCHANGED <<scriptVars, engineVars, sessionVars, mapperVars, collectVars, authVars, poolVars, credVars>>

\* The outer loop is over: the models are printed.
ParseDone ==
  /\ cPc = "parsing"
  /\ cIn.kind = "models"
  /\ cOut.pos >= Len(cIn.buf)
  /\ cPc' = "parsed"
  /\ UNCHANGED <<cIn, cOut>>
  /\ UNCHANGED <<scriptVars, engineVars, sessionVars, mapperVars, collectVars, authVars, poolVars, credVars>>

ModelsNext == OuterPass \/ InnerPass \/ ModelDone \/ ParseDone

\* ------------------------------------------- the status display
\*
\* maskToken of the demo's status command.  A token is the sequence of its
\* characters.

Chars(str, n) == [i \in 1..n |-> str]

\* token.substring(start, end): both ends clamped to the string.
substring(token, start, end) ==
  LET lo == IF start < 0 THEN 0 ELSE IF start > Len(token) THEN Len(token)
            ELSE start
      hi == IF end < 0 THEN 0 ELSE IF end > Len(token) THEN Len(token)
            ELSE end
  IN  IF lo <= hi THEN SubSeq(token, lo + 1, hi) ELSE SubSeq(token, hi + 1, lo)

NotSet == <<"(", "n", "o", "t", " ", "s", "e", "t", ")">>

\* maskToken: `present` is false for undefined.
maskToken(present, token) ==
  IF ~present \/ token = << >> THEN NotSet
  ELSE IF Len(token) < 20 THEN Chars("*", 3)
  ELSE substring(token, 0, 10) \o Chars(".", 3)
         \o substring(token, Len(token) - 10, Len(token))

\* The sampled tokens of length n: all "a", with "b" at any of the
\* positions around the two cuts and at the two ends.
TokensOfLength(n) ==
  LET P == {1, 10, 11, 12, n - 10, n - 9, n} \cap (1..n)
  IN  {[i \in 1..n |-> IF i \in flips THEN "b" ELSE "a"] :
         flips \in SUBSET P}

TokenLengths == {0, 1} \cup (19..MaxTokenLength)

MaskInit ==
  /\ cIn \in {[kind |-> "token", present |-> FALSE, token |-> << >>]}
              \cup {[kind |-> "token", present |-> TRUE, token |-> t] :
                      t \in UNION {TokensOfLength(n) : n \in TokenLengths}}
  /\ cOut = [kind |-> "none"]
  /\ cPc = "ready"

\* One line of showStatus: the masked token is printed.
MaskRun ==
  /\ cPc = "ready"
  /\ cIn.kind = "token"
  /\ cOut' = [kind |-> "masked", text |-> maskToken(cIn.present, cIn.token)]
  /\ cPc' = "done"
  /\ UNCHANGED cIn
  /\ UNCHANGED <<scriptVars, engineVars, sessionVars, mapperVars, collectVars, authVars, poolVars, credVars>>

\* ------------------------------------------- streams with anomalies
\*
\* The read loop on frames a backend may send beside the regular ones.

\* "ok" and "Hi".
TextOk == <<111, 107>>

TextHi == <<72, 105>>

\* An error frame (flags 0x02) whose payload reads as a text delta, and
\* one whose payload is the JSON text "{}".
ErrorFrameKinds ==
  { [flags |-> 2, payload |-> TextDeltaMessage(TextOk)],
    [flags |-> 2, payload |-> <<123, 125>>] }

\* A field 9 of wire type 3 and its end (an empty group), then a text
\* delta: at the top level of the message, and inside interaction_update.
GroupFrameKinds ==
  { [flags |-> 0, payload |-> <<75, 76>> \o TextDeltaMessage(TextOk)],
    [flags |-> 0,
     payload |-> encodeMessageField(1,
                   <<75, 76>> \o encodeMessageField(1,
                                   encodeStringField(1, TextOk)))] }

\* A varint field 9, which no dispatch branch knows, then a text delta.
UnknownFieldFrameKinds ==
  { [flags |-> 0, payload |-> <<72, 1>> \o TextDeltaMessage(TextOk)] }

\* A text delta whose string declares 5 bytes where 2 remain, and a
\* message that ends inside the varint of its field 9.
TruncatedFrameKinds ==
  { [flags |-> 0,
     payload |-> encodeMessageField(1,
                   encodeMessageField(1, <<10, 5>> \o TextHi))],
    [flags |-> 0, payload |-> TextDeltaMessage(TextOk) \o <<72, 128>>] }

AnomalyFrameKinds ==
  ErrorFrameKinds \cup GroupFrameKinds \cup UnknownFieldFrameKinds
    \cup TruncatedFrameKinds

\* The regular frame of these runs.
HelloFrame == [flags |-> 0, payload |-> TextDeltaMessage(TextHello)]

\* One such frame, alone, before or behind a regular text frame.
AnomalyInit ==
  /\ sent \in { <<f>> : f \in AnomalyFrameKinds }
       \cup { <<f, HelloFrame>> : f \in AnomalyFrameKinds }
       \cup { <<HelloFrame, f>> : f \in AnomalyFrameKinds }
  /\ stream = Wire(sent)
  /\ pos = 0
  /\ fullBuffer = << >>
  /\ chunks = 0
  /\ frames = << >>
  /\ stdout = << >>
  /\ trailers = << >>
  /\ gotInteractionUpdate = FALSE
  /\ gotExecServerMessage = FALSE
  /\ gotInteractionQuery = FALSE
  /\ pc = "reading"

\* ------------------------------------------------- collectStreamText
\*
\* A text is the sequence of its characters, so that `+=` is \o.

\* chunk.error ?? "Unknown streaming error"; a chunk without an error
\* text carries << >>.
UnknownStreamingError == <<"?">>

\* The chunks a stream is made of: texts (one of them empty), a tool
\* call, errors with and without a text, and a chunk of a type the loop
\* does not look at.
ChunkKinds ==
  { [type |-> "text", content |-> <<"a">>, error |-> << >>],
    [type |-> "text", content |-> <<"b", "c">>, error |-> << >>],
    [type |-> "text", content |-> << >>, error |-> << >>],
    [type |-> "tool_call", content |-> << >>, error |-> << >>],
    [type |-> "error", content |-> << >>, error |-> <<"e">>],
    [type |-> "error", content |-> << >>, error |-> << >>],
    [type |-> "done", content |-> << >>, error |-> << >>] }

\* A loop body that takes an error chunk for one more chunk to pass over.
collectChunkPassError(text, chunk) ==
  [result |-> IF chunk.type = "text" /\ chunk.content # << >>
              THEN text \o chunk.content ELSE text,
   thrown |-> FALSE,
   error  |-> << >>]

\* The body of the for-await loop on one chunk: result after it, and
\* whether it throws, with which message.
collectChunk(text, chunk) ==
  [result |-> IF chunk.type = "text" /\ chunk.content # << >>
              THEN text \o chunk.content ELSE text,
   thrown |-> chunk.type = "error",
   error  |-> IF chunk.type # "error" THEN << >>
              ELSE IF chunk.error # << >> THEN chunk.error
              ELSE UnknownStreamingError]

CollectIdle ==
  /\ kChunks = << >>
  /\ kPos = 0
  /\ result = << >>
  /\ kReturn = [kind |-> "none"]
  /\ kPc = "idle"

CollectInit ==
  /\ kChunks \in SeqsUpTo(ChunkKinds, MaxYield)
  /\ kPos = 0
  /\ result = << >>
  /\ kReturn = [kind |-> "none"]
  /\ kPc = "collecting"

\* One iteration of the for-await loop.
CollectChunk ==
  /\ kPc = "collecting"
  /\ kPos < Len(kChunks)
  /\ \E step \in {collectChunk(result, kChunks[kPos + 1])} :
       /\ result' = step.result
       /\ kPc' = IF step.thrown THEN "thrown" ELSE "collecting"
       /\ kReturn' = IF step.thrown
                     THEN [kind |-> "error", message |-> step.error]
                     ELSE kReturn
  /\ kPos' = kPos + 1
  /\ UNCHANGED kChunks
  /\ UNCHANGED <<scriptVars, engineVars, sessionVars, codecVars, mapperVars, authVars, poolVars, credVars>>

\* The stream is exhausted: `return result`.
CollectReturn ==
  /\ kPc = "collecting"
  /\ kPos = Len(kChunks)
  /\ kReturn' = [kind |-> "text", text |-> result]
  /\ kPc' = "returned"
  /\ UNCHANGED <<kChunks, kPos, result>>
  /\ UNCHANGED <<scriptVars, engineVars, sessionVars, codecVars, mapperVars, authVars, poolVars, credVars>>

CollectNext == CollectChunk \/ CollectReturn

\* --------------------------------------------------- the bearer token
\*
\* The three places that ask the credential manager for the access token
\* before a request: main() of the exec-flow script, the test helper
\* getAccessToken, and the auth interceptor.

\* What getAccessToken() can resolve to: undefined (nothing stored), the
\* empty string, a token good for more than five minutes, a token about
\* to expire.
TokenStates == {"undefined", "empty", "fresh", "expiring"}

\* `!token`: undefined and "" are falsy.
noToken(token) == token \in {"undefined", "empty"}

\* isTokenExpiringSoon.
isTokenExpiringSoon(token) == token = "expiring"

\* getValidAccessToken: null without a token, else the current token
\* (the refresh with the API key is only logged).
getValidAccessToken(token, apiKey) ==
  IF noToken(token) THEN "null"
  ELSE IF ~isTokenExpiringSoon(token) THEN token
  ELSE token

\* A request as the network sees it: its URL and its authorization
\* header, "absent" when none was set.
NetworkRequest(url, authorization) ==
  [url |-> url, authorization |-> authorization]

\* createAuthInterceptor's inner function: the authorization header is
\* set when there is a token, and next(req) is called either way.
intercept(token, apiKey) ==
  LET t == getValidAccessToken(token, apiKey)
  IN  [outcome |-> "sent",
       sent |-> <<NetworkRequest("request",
                    IF t # "undefined" /\ t # "null" THEN t ELSE "absent")>>]

\* main() of the exec-flow script: throws without a token, before any
\* fetch; else RunSSE and BidiAppend go out with the bearer token.
mainTokenCheck(token) ==
  IF noToken(token) THEN [outcome |-> "error", sent |-> << >>]
  ELSE [outcome |-> "sent",
        sent |-> <<NetworkRequest("RunSSE", token),
                   NetworkRequest("BidiAppend", token)>>]

\* The test helpers getAccessToken and createTestClient: throw without a
\* token, else hand the token to the client; nothing is sent yet.
helperGetAccessToken(token) ==
  IF noToken(token) THEN [outcome |-> "error", sent |-> << >>]
  ELSE [outcome |-> "client", sent |-> << >>]

AuthIdle ==
  /\ aToken = "undefined"
  /\ aApiKey = FALSE
  /\ aCalls = << >>
  /\ aNetwork = << >>

AuthInit ==
  /\ aToken \in TokenStates
  /\ aApiKey \in BOOLEAN
  /\ aCalls = << >>
  /\ aNetwork = << >>

\* The record of one call of an entry point.
callRecord(entry, done) ==
  [entry |-> entry, outcome |-> done.outcome, sent |-> done.sent]

\* main() of the exec-flow script runs.
RunMain ==
  /\ Len(aCalls) < MaxCalls
  /\ aCalls' = Append(aCalls, callRecord("main", mainTokenCheck(aToken)))
  /\ aNetwork' = aNetwork \o mainTokenCheck(aToken).sent
  /\ UNCHANGED <<aToken, aApiKey>>
  /\ UNCHANGED <<scriptVars, engineVars, sessionVars, codecVars, mapperVars,
                 collectVars, poolVars, credVars>>

\* A test asks for its client.
CreateTestClient ==
  /\ Len(aCalls) < MaxCalls
  /\ aCalls' = Append(aCalls,
                 callRecord("helper", helperGetAccessToken(aToken)))
  /\ aNetwork' = aNetwork \o helperGetAccessToken(aToken).sent
  /\ UNCHANGED <<aToken, aApiKey>>
  /\ UNCHANGED <<scriptVars, engineVars, sessionVars, codecVars, mapperVars,
                 collectVars, poolVars, credVars>>

\* A request passes through the auth interceptor.
InterceptRequest ==
  /\ Len(aCalls) < MaxCalls
  /\ aCalls' = Append(aCalls,
                 callRecord("interceptor", intercept(aToken, aApiKey)))
  /\ aNetwork' = aNetwork \o intercept(aToken, aApiKey).sent
  /\ UNCHANGED <<aToken, aApiKey>>
  /\ UNCHANGED <<scriptVars, engineVars, sessionVars, codecVars, mapperVars,
                 collectVars, poolVars, credVars>>

AuthNext == RunMain \/ CreateTestClient \/ InterceptRequest

\* ------------------------------------------------ concurrent pipelines
\*
\* Several requests at once, each handled by its own pipeline.  A
\* pipeline takes a conversationId (a new one, or that of a Session no
\* running pipeline holds), looks its Session up and puts its Session
\* into the store; the steps of different pipelines interleave freely.

Pipelines == 1..MaxPipelines

\* A put that writes back the store as the pipeline saw it at its lookup.
putWholeMap(store, snapshot, session) ==
  {s \in snapshot : s.conversationId # session.conversationId}
    \cup {session}

\* The put of one key: the Session of this conversationId is replaced,
\* every other Session of the store as it is now stays.
putSession(store, snapshot, session) ==
  {s \in store : s.conversationId # session.conversationId}
    \cup {session}

\* The Session a pipeline finds under a conversationId.
lookupSession(store, conversationId) ==
  {s \in store : s.conversationId = conversationId}

\* The conversationIds held by the pipelines that are under way.
heldIds ==
  {pipes[q].conversationId : q \in {r \in Pipelines :
                                      pipes[r].pc \in {"begun", "looked"}}}

PipeAtRest ==
  [pc |-> "idle", conversationId |-> 0, found |-> {}, snapshot |-> {}]

PoolIdle ==
  /\ pStore = {}
  /\ pUuid = 0
  /\ pipes = << >>
  /\ pWritten = {}

\* Before the requests arrive the store may hold the Session of an
\* earlier conversation.
PoolInit ==
  /\ \E n \in 0..1 :
       /\ pStore = {[conversationId |-> i, pending |-> {}, owner |-> 0] :
                      i \in 1..n}
       /\ pUuid = n
  /\ pipes = [q \in Pipelines |-> PipeAtRest]
  /\ pWritten = pStore

\* A first turn: the pipeline draws a new conversationId.
BeginFresh(q) ==
  /\ pipes[q].pc = "idle"
  /\ pipes' = [pipes EXCEPT ![q].pc = "begun",
                            ![q].conversationId = pUuid + 1]
  /\ pUuid' = pUuid + 1
  /\ UNCHANGED <<pStore, pWritten>>
  /\ UNCHANGED <<scriptVars, engineVars, sessionVars, codecVars, mapperVars,
                 collectVars, authVars, credVars>>

\* A continuation: the pipeline takes over a conversation that no
\* pipeline under way holds.
BeginContinuing(q, c) ==
  /\ pipes[q].pc = "idle"
  /\ lookupSession(pStore, c) # {}
  /\ c \notin heldIds
  /\ pipes' = [pipes EXCEPT ![q].pc = "begun", ![q].conversationId = c]
  /\ UNCHANGED <<pStore, pUuid, pWritten>>
  /\ UNCHANGED <<scriptVars, engineVars, sessionVars, codecVars, mapperVars,
                 collectVars, authVars, credVars>>

\* The pipeline looks its Session up.
Lookup(q) ==
  /\ pipes[q].pc = "begun"
  /\ pipes' = [pipes EXCEPT
                 ![q].pc = "looked",
                 ![q].found = lookupSession(pStore, pipes[q].conversationId),
                 ![q].snapshot = pStore]
  /\ UNCHANGED <<pStore, pUuid, pWritten>>
  /\ UNCHANGED <<scriptVars, engineVars, sessionVars, codecVars, mapperVars,
                 collectVars, authVars, credVars>>

\* The pipeline puts its Session: that of a turn that ended with the
\* tool call `call`, or with text (call 0, nothing pending).
Insert(q, call) ==
  /\ pipes[q].pc = "looked"
  /\ \E session \in {[conversationId |-> pipes[q].conversationId,
                      pending |-> IF call = 0 THEN {} ELSE {call},
                      owner |-> q]} :
       /\ pStore' = putSession(pStore, pipes[q].snapshot, session)
       /\ pWritten' = {w \in pWritten :
                         w.conversationId # session.conversationId}
                        \cup {session}
  /\ pipes' = [pipes EXCEPT ![q].pc = "done"]
  /\ UNCHANGED pUuid
  /\ UNCHANGED <<scriptVars, engineVars, sessionVars, codecVars, mapperVars,
                 collectVars, authVars, credVars>>

PoolNext ==
  \E q \in Pipelines :
    \/ BeginFresh(q)
    \/ \E c \in 1..pUuid : BeginContinuing(q, c)
    \/ Lookup(q)
    \/ \E call \in {0, q} : Insert(q, call)

vars == <<scriptVars, engineVars, sessionVars, codecVars, mapperVars,
    collectVars,
    authVars,
    poolVars,
    credVars>>

Init == ScriptInit /\ EngineIdle /\ SessionIdle /\ CodecIdle /\ MapperIdle /\ CollectIdle /\ AuthIdle /\ PoolIdle /\ CredIdle

Next == ScriptNext

Spec == Init /\ [][Next]_vars

InitEngine ==
  EngineInit /\ ScriptIdle /\ SessionIdle /\ CodecIdle /\ MapperIdle /\ CollectIdle /\ AuthIdle /\ PoolIdle /\ CredIdle

NextEngine == EngineNext

SpecEngine == InitEngine /\ [][NextEngine]_vars

InitSession ==
  SessionInit /\ ScriptIdle /\ EngineIdle /\ CodecIdle /\ MapperIdle /\ CollectIdle /\ AuthIdle /\ PoolIdle /\ CredIdle

NextSession == SessionNext

SpecSession == InitSession /\ [][NextSession]_vars

InitTools ==
  ToolsInit /\ ScriptIdle /\ SessionIdle /\ CodecIdle /\ MapperIdle /\ CollectIdle /\ AuthIdle /\ PoolIdle /\ CredIdle

SpecTools == InitTools /\ [][NextEngine]_vars

InitCodec ==
  CodecInit /\ ScriptIdle /\ EngineIdle /\ SessionIdle /\ MapperIdle /\ CollectIdle /\ AuthIdle /\ PoolIdle /\ CredIdle

NextCodec == CodecNext

SpecCodec == InitCodec /\ [][NextCodec]_vars

InitMapper ==
  MapperInit /\ ScriptIdle /\ EngineIdle /\ SessionIdle /\ CodecIdle /\ CollectIdle /\ AuthIdle /\ PoolIdle /\ CredIdle

NextMapper == MapperNext

SpecMapper == InitMapper /\ [][NextMapper]_vars

InitRequest ==
  RequestInit /\ ScriptIdle /\ EngineIdle /\ SessionIdle /\ MapperIdle /\ CollectIdle /\ AuthIdle /\ PoolIdle /\ CredIdle

SpecRequest == InitRequest /\ [][RequestNext]_vars

InitCred ==
  CredInit /\ ScriptIdle /\ EngineIdle /\ SessionIdle /\ CodecIdle /\ MapperIdle /\ CollectIdle /\ AuthIdle /\ PoolIdle

SpecCred == InitCred /\ [][CredNext]_vars

InitFramer ==
  FramerInit /\ ScriptIdle /\ EngineIdle /\ SessionIdle /\ MapperIdle /\ CollectIdle /\ AuthIdle /\ PoolIdle /\ CredIdle

SpecFramer == InitFramer /\ [][FramerNext]_vars

InitModels ==
  ModelsInit /\ ScriptIdle /\ EngineIdle /\ SessionIdle /\ MapperIdle /\ CollectIdle /\ AuthIdle /\ PoolIdle /\ CredIdle

SpecModels == InitModels /\ [][ModelsNext]_vars

InitMask ==
  MaskInit /\ ScriptIdle /\ EngineIdle /\ SessionIdle /\ MapperIdle /\ CollectIdle /\ AuthIdle /\ PoolIdle /\ CredIdle

SpecMask == InitMask /\ [][MaskRun]_vars

InitCollect ==
  CollectInit /\ ScriptIdle /\ EngineIdle /\ SessionIdle /\ CodecIdle /\ MapperIdle /\ AuthIdle /\ PoolIdle /\ CredIdle

SpecCollect == InitCollect /\ [][CollectNext]_vars

InitAuth ==
  AuthInit /\ ScriptIdle /\ EngineIdle /\ SessionIdle /\ CodecIdle /\ MapperIdle /\ CollectIdle /\ PoolIdle /\ CredIdle

SpecAuth == InitAuth /\ [][AuthNext]_vars

InitPool ==
  PoolInit /\ ScriptIdle /\ EngineIdle /\ SessionIdle /\ CodecIdle /\ MapperIdle /\ CollectIdle /\ AuthIdle /\ CredIdle

SpecPool == InitPool /\ [][PoolNext]_vars

InitAnomaly ==
  AnomalyInit /\ EngineIdle /\ SessionIdle /\ CodecIdle /\ MapperIdle /\ CollectIdle /\ AuthIdle /\ PoolIdle /\ CredIdle

SpecAnomaly == InitAnomaly /\ [][ScriptNext]_vars

\* The read loop with its scheduling: the 30 s timer fires while the loop
\* is still reading.
SpecScheduled == Spec /\ WF_vars(Abort)

\* ---------------------------------------------------- the framer's claims

\* The bytes handed over so far.
Delivered == SubSeq(stream, 1, pos)

\* The frames the loop yields when `bytes` arrive as one single chunk.
WholeFrames(bytes) == extractFrames(bytes, 0, << >>).frames

\* C1 as stated: for every stream of valid frames and every partition of it
\* into chunks, once the loop has run (to the end of the stream or to its
\* own stop) it has yielded the frames that feeding the whole stream as one
\* chunk yields.
C1_AnyPartition ==
  pc \in {"done", "maxChunks"} => frames = WholeFrames(stream)

\* C1 amended: the frames yielded chunk by chunk are at every moment those
\* of feeding the bytes read so far as one chunk; the loop leaves on its own
\* only at the end of the stream or after its 51st chunk, so every partition
\* into at most 51 chunks yields the frames of the whole stream.
C1_ChunkIndependentUpTo51 ==
  /\ frames = WholeFrames(Delivered)
  /\ pc = "done" => pos = Len(stream) /\ frames = WholeFrames(stream)
  /\ pc = "maxChunks" => chunks = MaxChunks + 1
  /\ pos = Len(stream) => frames = WholeFrames(stream)

\* C1 witness: a stream of two frames fed one byte per chunk (so that every
\* header and every payload is cut) has been read to its end.
C1_Witness ==
  /\ pc = "done"
  /\ Len(sent) = 2
  /\ chunks = Len(stream)
  /\ frames = WholeFrames(stream)
  /\ Len(frames) = 2

\* C10: the frames emitted are exactly the first k frames sent, each with
\* its full payload; the buffer holds exactly the bytes received after them
\* (nothing buffered is lost), and these are fewer than the next frame
\* needs: an incomplete frame is never emitted, a complete one never kept
\* back, and the loop is in no error state.
C10_IncompleteThenResumes ==
  LET k == Len(frames)
  IN  /\ k <= Len(sent)
      /\ frames = SubSeq(sent, 1, k)
      /\ Wire(frames) \o fullBuffer = Delivered
      /\ k < Len(sent) =>
           Len(fullBuffer) < 5 + Len(sent[k + 1].payload)
      /\ k = Len(sent) => fullBuffer = << >>
      /\ pc \in {"reading", "done", "maxChunks", "aborted"}

\* C10 witness: the first frame is out, the header of the second is
\* buffered with a part of its payload, and the loop waits for the rest.
C10_Witness ==
  /\ pc = "reading"
  /\ Len(sent) = 2
  /\ Len(frames) = 1
  /\ Len(fullBuffer) > 5
  /\ pos < Len(stream)

\* The frames extracted up to and with the first trailer.
UpToTrailer ==
  LET ts == {i \in 1..Len(frames) : IsTrailer(frames[i].flags)}
  IN  IF ts = {} THEN frames
      ELSE SubSeq(frames, 1, CHOOSE i \in ts : \A j \in ts : i <= j)

\* C34: a trailer ends the stream: once a trailer has been extracted no
\* later frame, in the buffer or in a later chunk, is extracted, decoded
\* as a message or has its text written.
C34_TrailerEndsStream ==
  /\ stdout = textDeltasOfFrames(UpToTrailer)
  /\ gotExecServerMessage = AnyHasField(UpToTrailer, 2)
  /\ frames = UpToTrailer

\* The trailer branch logs the trailer and the loops go on: the frames
\* behind a trailer are extracted and decoded like those before it.
TrailerIsPassedOver ==
  /\ stdout = textDeltasOfFrames(frames)
  /\ gotExecServerMessage = AnyHasField(frames, 2)
  /\ gotInteractionUpdate = AnyHasField(frames, 1)
  /\ trailers = trailerTexts(frames)

\* ------------------------------------------------ the engine turn's claims

\* What the backend has sent, told apart by how it was built (not by the
\* engine's own decoding).
SentIsText(f) == f = [flags |-> 0, payload |-> TextDeltaMessage(<<111, 107>>)]

SentIsExec(f) == f \in AllExecFrames

SentIsTrailer(f) == f.flags >= 128

SentEndsTurn(f) ==
  SentIsTrailer(f) \/ f.flags = 2 \/ (eTools /\ SentIsExec(f))

\* The frames whose bytes have all been received.
Arrived ==
  LET ks == {k \in 0..Len(eSent) : Len(Wire(SubSeq(eSent, 1, k))) <= ePos}
      k  == CHOOSE x \in ks : \A y \in ks : y <= x
  IN  SubSeq(eSent, 1, k)

\* The frames received in the turn: those that arrived, up to and with the
\* first that ends the turn.
TurnFrames ==
  LET ends == {i \in 1..Len(Arrived) : SentEndsTurn(Arrived[i])}
  IN  IF ends = {} THEN Arrived
      ELSE SubSeq(Arrived, 1, CHOOSE i \in ends : \A j \in ends : i <= j)

CountType(es, t) == Len(SelectSeq(es, LAMBDA e : e.type = t))

\* C2: in a turn whose request supplies tools, a ToolInvocation is followed
\* by no TextDelta: the very next event is Done with the tool-calls reason,
\* it is the last event and the turn has ended; Done carries that reason
\* only after a ToolInvocation.
C2_ToolCallEndsTurn ==
  eTools =>
    \A i \in 1..Len(events) :
      /\ events[i].type = "ToolInvocation" =>
           /\ \A j \in (i + 1)..Len(events) : events[j].type # "TextDelta"
           /\ Len(events) = i + 1
           /\ events[i + 1] = Done("tool_calls")
           /\ ePc = "ended"
      /\ events[i] = Done("tool_calls") =>
           i > 1 /\ events[i - 1].type = "ToolInvocation"

\* C2 witness: tools supplied, an exec request then a text frame have both
\* arrived in full, and the events end with the ToolInvocation and Done.
C2_Witness ==
  /\ eTools
  /\ Len(Arrived) = 2
  /\ SentIsExec(Arrived[1])
  /\ SentIsText(Arrived[2])
  /\ Len(events) = 2
  /\ events[1].type = "ToolInvocation"

C6_NoToolsNoInvocation ==
  ~eTools =>
    /\ \A i \in 1..Len(events) :
         /\ events[i].type \in {"TextDelta", "Done", "Error"}
         /\ i < Len(events) => events[i].type = "TextDelta"
    /\ Len(eLocal) = Len(SelectSeq(TurnFrames, SentIsExec))

\* C6 witness: no tools, an exec request then a text frame were received,
\* the exec request ran locally and the stream ended after the TextDelta.
C6_Witness ==
  /\ ~eTools
  /\ Len(TurnFrames) = 2
  /\ SentIsExec(TurnFrames[1])
  /\ SentIsText(TurnFrames[2])
  /\ Len(eLocal) = 1
  /\ ePc = "ended"
  /\ events[1].type = "TextDelta"

RECURSIVE ConcatText(_)
ConcatText(es) ==
  IF es = << >> THEN << >>
  ELSE (IF Head(es).type = "TextDelta" THEN Head(es).text ELSE << >>)
         \o ConcatText(Tail(es))

\* The texts of the text frames received in the turn, one behind the other.
RECURSIVE SentText(_)
SentText(fs) ==
  IF fs = << >> THEN << >>
  ELSE (IF SentIsText(Head(fs)) THEN <<111, 107>> ELSE << >>)
         \o SentText(Tail(fs))

C4_DefaultAlwaysFresh ==
  /\ sReuse = "unset" =>
       \A i \in 1..Len(sOut) :
         sOut[i].body.results # {} =>
           /\ sOut[i].mode = "Fresh"
           /\ \A j \in 1..(i - 1) :
                sOut[j].conversationId # sOut[i].conversationId
           /\ sOut[i].replayed = sOut[i].body.msgs
  /\ \A i \in 1..Len(sOut) : sOut[i].mode = "Continuing" => sReuse = "1"

BitOf(v, n) ==
  IF n \div 16 + 1 > Len(v) THEN 0 ELSE (v[n \div 16 + 1] \div Pow2(n % 16)) % 2

\* The number of 7-bit groups up to the highest set bit, at least one.
GroupsOf(v) ==
  LET set == {n \in 0..63 : BitOf(v, n) = 1}
  IN  IF set = {} THEN 1
      ELSE (CHOOSE n \in set : \A m \in set : m <= n) \div 7 + 1

\* Group g (from 0) of a BigInt: its bits 7g .. 7g+6.
GroupOf(v, g) ==
  BitOf(v, 7 * g) + 2 * BitOf(v, 7 * g + 1) + 4 * BitOf(v, 7 * g + 2)
    + 8 * BitOf(v, 7 * g + 3) + 16 * BitOf(v, 7 * g + 4)
    + 32 * BitOf(v, 7 * g + 5) + 64 * BitOf(v, 7 * g + 6)

\* C11: for a uint64 v, encodeVarint(v) is the 7-bit groups of v, lowest
\* first, with 0x80 set on every byte but the last; decodeVarint of these
\* bytes at offset 0 gives v back and has read all of them; on values that
\* fit a Number the BigInt functions and the Number ones agree.
C11_VarintRoundTrip ==
  (cIn.kind = "varint" /\ cPc \in {"encoded", "done"}) =>
    LET v == cIn.u
        bytes == cOut.bytes
        n == Len(bytes)
    IN  /\ n = GroupsOf(v)
        /\ \A i \in 1..n :
             bytes[i] = GroupOf(v, i - 1) + (IF i < n THEN 128 ELSE 0)
        /\ cPc = "done" =>
             /\ cOut.decoded.value = v \o <<0>>
             /\ cOut.decoded.bytesRead = n
        /\ (v[2] < 16384 /\ v[3] = 0 /\ v[4] = 0) =>
             /\ encodeVarint(v[1] + LimbBase * v[2]) = bytes
             /\ decodeVarint(bytes, 0) =
                  [value |-> v[1] + LimbBase * v[2], bytesRead |-> n]

\* C11 witness: 2^64 - 1 has gone through both functions: ten bytes, nine
\* of them 0xFF and the last 0x01.
C11_Witness ==
  /\ cIn.kind = "varint"
  /\ cPc = "done"
  /\ cIn.u = <<65535, 65535, 65535, 65535>>
  /\ cOut.bytes = <<255, 255, 255, 255, 255, 255, 255, 255, 255, 1>>
  /\ cOut.decoded.bytesRead = 10

\* C12 as stated: decoding the bytes the dynamic-value encoder produced
\* for v gives v back (lists in order, maps entry by entry), for every
\* value of the runs, the empty string, empty list, empty map, false and 0
\* included.
C12_DynamicRoundTrip ==
  (cIn.kind = "value" /\ cPc = "done") => cOut.decoded = cIn.v

\* C13: the envelope of a payload p is 5 + |p| bytes: 0x00, then |p| in
\* four bytes, most significant first, then p unchanged; the framer's loop
\* over these bytes gives the one frame (flags 0, payload p) and leaves
\* nothing in the buffer.
C13_EnvelopeWrap ==
  (cIn.kind = "payload" /\ cPc \in {"encoded", "done"}) =>
    LET p == cIn.p
        bytes == cOut.bytes
    IN  /\ Len(bytes) = 5 + Len(p)
        /\ bytes[1] = 0
        /\ \A i \in 2..5 : bytes[i] \in 0..255
        /\ bytes[2] * 16777216 + bytes[3] * 65536 + bytes[4] * 256 + bytes[5]
             = Len(p)
        /\ SubSeq(bytes, 6, Len(bytes)) = p
        /\ cPc = "done" =>
             /\ cOut.frames = <<[flags |-> 0, payload |-> p]>>
             /\ cOut.rest = << >>

\* C13 witness: a payload of 300 bytes (length bytes 0, 0, 1, 44) has been
\* wrapped and taken out again.
C13_Witness ==
  /\ cIn.kind = "payload"
  /\ cPc = "done"
  /\ Len(cIn.p) = 300
  /\ SubSeq(cOut.bytes, 1, 5) = <<0, 0, 0, 1, 44>>
  /\ Len(cOut.frames) = 1
  /\ cOut.frames[1].payload = cIn.p

\* How many entries of fs have field number n.
Occurrences(fs, n) == Len(SelectSeq(fs, LAMBDA f : f.fieldNumber = n))

\* Where the i-th field of fs starts in the bytes of the message.
RECURSIVE StartOf(_, _)
StartOf(fs, i) ==
  IF i = 1 THEN 0 ELSE StartOf(fs, i - 1) + Len(occurrenceBytes(fs[i - 1]))

\* C28: decoding a message returns one entry per field occurrence, in the
\* order of the bytes, each with the number, the wire type and the value of
\* its occurrence and the offset it starts at; a repeated field number
\* keeps every duplicate: the entries with number n are as many as the
\* occurrences of n.
C28_EntryPerOccurrence ==
  (cPc = "done" /\ cIn.kind = "fields") =>
    LET fs  == cIn.fs
        got == cOut.decoded
    IN  /\ Len(got) = Len(fs)
        /\ \A i \in 1..Len(fs) :
             /\ got[i].fieldNumber = fs[i].fieldNumber
             /\ got[i].wireType = fs[i].wireType
             /\ got[i].bytes = fs[i].bytes
             /\ got[i].varint = fs[i].varint
             /\ got[i].offset = StartOf(fs, i)
        /\ \A n \in {f.fieldNumber : f \in FieldKinds} :
             Occurrences(got, n) = Occurrences(fs, n)

\* C28 witness: a message of three fields, the first and the last with the
\* same field number and another number between them, decoded to three
\* entries.
C28_Witness ==
  /\ cPc = "done"
  /\ cIn.kind = "fields"
  /\ Len(cIn.fs) = 3
  /\ cIn.fs[1].fieldNumber = cIn.fs[3].fieldNumber
  /\ cIn.fs[1] # cIn.fs[3]
  /\ cIn.fs[2].fieldNumber # cIn.fs[1].fieldNumber
  /\ Len(cOut.decoded) = 3
  /\ Occurrences(cOut.decoded, cIn.fs[1].fieldNumber) = 2

\* The wire type an encoder of the script writes.
WireTypeOf(enc) ==
  IF enc \in {"string", "stringSkip", "message"} THEN 2 ELSE 0

\* The encoded field decodes to the one field that was encoded.
DecodesToItself ==
  /\ Len(cOut.decoded) = 1
  /\ cOut.decoded[1].fieldNumber = cIn.n
  /\ cOut.decoded[1].wireType = WireTypeOf(cIn.enc)
  /\ cOut.decoded[1].bytes = cIn.p
  /\ cOut.decoded[1].varint = cIn.v

\* C31: for every field number and payload the tag the field encoders
\* write is the varint of (fieldNumber << 3) | wireType, and decoding the
\* encoded field returns exactly one field with the same number, wire type
\* and payload, also for the numbers from 16 on.
C31_TagRoundTrip ==
  (cPc = "done" /\ cIn.kind = "field") =>
    /\ SubSeq(cOut.bytes, 1, Len(encodeVarint(cIn.n * 8 + WireTypeOf(cIn.enc))))
         = encodeVarint(cIn.n * 8 + WireTypeOf(cIn.enc))
    /\ DecodesToItself

\* The tag is the low byte of (fieldNumber << 3) | wireType, whatever the
\* number: the field decodes to itself exactly for the numbers up to 15.
OneByteTag ==
  (cPc = "done" /\ cIn.kind = "field") =>
    /\ cOut.bytes[1] = (cIn.n * 8 + WireTypeOf(cIn.enc)) % 256
    /\ DecodesToItself <=> cIn.n <= 15

\* The value given to a scalar encoder is zero, false or empty.
ZeroValued == cIn.v = 0 /\ cIn.p = << >>

\* C32: every scalar field encoder (int32, uint32, int64, bool, string)
\* gives no bytes for a zero, false or empty value and the tag with the
\* value otherwise.
C32_ZeroIsOmitted ==
  (cPc = "done" /\ cIn.kind = "scalar") =>
    (cOut.bytes = << >>) <=> ZeroValued

\* Which encoders omit: int32, uint32 and the string encoder of the
\* tool-encoding script give no bytes for zero or empty; int64, bool and
\* the string encoder of the interaction-query script give the tag and a
\* zero byte; a value that is not zero is always written.
OmittingEncoders ==
  (cPc = "done" /\ cIn.kind = "scalar") =>
    /\ ~ZeroValued => cOut.bytes # << >>
    /\ ZeroValued =>
         IF cIn.enc \in {"int32", "uint32", "stringSkip"}
         THEN cOut.bytes = << >>
         ELSE cOut.bytes = <<cIn.n * 8 + WireTypeOf(cIn.enc), 0>>

\* ---------------------------------------------------- the tool runs' claims

\* The exec request that ends the turn of a tool run, if it has arrived.
LastIsExec == TurnFrames # << >> /\ SentIsExec(TurnFrames[Len(TurnFrames)])

\* The kind and the argument message it was built with.
SentKind ==
  CHOOSE k \in KnownExecKinds \cup UnknownExecKinds :
    \E a \in ExecArgsOfRuns :
      TurnFrames[Len(TurnFrames)].payload = ExecServerMessageWith(k, a)

SentArgs ==
  CHOOSE a \in ExecArgsOfRuns :
    TurnFrames[Len(TurnFrames)].payload = ExecServerMessageWith(SentKind, a)

\* The string the argument message holds in its field 1.
SentField1 ==
  IF SentArgs = encodeStringField(1, <<120>>) THEN <<120>>
  ELSE IF SentArgs = encodeStringField(1, <<97, 98>>) THEN <<97, 98>>
  ELSE << >>

\* The table of the documentation, kind by kind.
TableName ==
  CASE SentKind = ExecShell -> NameBash
    [] SentKind = ExecRead  -> NameRead
    [] SentKind = ExecWrite -> NameWrite
    [] SentKind = ExecLs    -> NameList
    [] SentKind = ExecGrep  -> IF SentField1 # << >> THEN NameGrep ELSE NameGlob
    [] SentKind = ExecMcp   -> SentField1
    [] OTHER -> << >>

\* C14: with tools supplied, an exec request of a known kind yields the
\* ToolInvocation whose name the table gives for its kind (for grep by
\* whether it holds a pattern, for mcp the tool name it carries) and whose
\* arguments are the request's, unchanged; the name depends on the request
\* only, whatever came before it and however it was chunked.
C14_ToolNameTable ==
  (eTools /\ LastIsExec /\ SentKind \in KnownExecKinds) =>
    /\ Len(events) >= 2
    /\ events[Len(events) - 1] = ToolInvocation(TableName, SentArgs)
    /\ events[Len(events)] = Done("tool_calls")

\* C14 witness: a grep request with a glob and no pattern came behind a
\* text frame and went out as "glob".
C14_Witness ==
  /\ eTools
  /\ Len(TurnFrames) = 2
  /\ LastIsExec
  /\ SentKind = ExecGrep
  /\ SentArgs = encodeStringField(2, <<120>>)
  /\ events[2] = ToolInvocation(NameGlob, SentArgs)

Sent == mOut.status = "sent"

\* The inbound message an entry was made from.
SourceOf(e) == mMsgs[e.src]

C17_FirstSystemIsInstructions ==
  Sent =>
    LET systems == {i \in 1..Len(mMsgs) : mMsgs[i].role = "system"}
        others  == {i \in 1..Len(mMsgs) :
                      \/ mMsgs[i].role # "system"
                      \/ \E j \in systems : j < i}
    IN  /\ systems = {} => mOut.instructions = ""
        /\ \A i \in systems :
             (\A j \in systems : i <= j) =>
               mOut.instructions = mMsgs[i].content
        /\ {mOut.entries[k].src : k \in 1..Len(mOut.entries)} = others
        /\ Len(mOut.entries) = Cardinality(others)
        /\ \A k \in 1..(Len(mOut.entries) - 1) :
             mOut.entries[k].src < mOut.entries[k + 1].src
        /\ \A k \in 1..Len(mOut.entries) :
             mOut.entries[k].content = SourceOf(mOut.entries[k]).content

\* C17 witness: a user message, then two system messages: the first
\* system message is the instructions, the second is an entry.
C17_Witness ==
  /\ Sent
  /\ Len(mMsgs) = 3
  /\ mMsgs[1].role = "user"
  /\ mMsgs[2].content = "S1"
  /\ mMsgs[3].content = "S2"
  /\ mOut.instructions = "S1"
  /\ Len(mOut.entries) = 2
  /\ mOut.entries[2].content = "S2"

\* A tool message of the list names no call of an assistant message that
\* stands before it.
Dangling ==
  \E i \in 1..Len(mMsgs) :
    /\ mMsgs[i].role = "tool"
    /\ \A j \in 1..(i - 1) :
         mMsgs[j].role = "assistant" =>
           \A c \in 1..Len(mMsgs[j].toolCalls) :
             mMsgs[j].toolCalls[c] # mMsgs[i].toolCallId

C19_FreshMessageIds ==
  /\ \A a, b \in 1..Len(mSentIds) : a # b => mSentIds[a] # mSentIds[b]
  /\ \A a \in 1..Len(mSentIds) :
       \A m \in MessageKinds : m.id # 0 => mSentIds[a] # m.id
  /\ Sent =>
       \A k \in 1..Len(mOut.entries) :
         /\ mOut.entries[k].messageId =
              mSentIds[Len(mSentIds) - Len(mOut.entries) + k]
         /\ mOut.entries[k].messageId # SourceOf(mOut.entries[k]).id

\* C19 witness: a second request went out, replaying a user message that
\* came with an ID of its own; it was sent under another ID each time.
C19_Witness ==
  /\ Sent
  /\ Len(mSentIds) > Len(mOut.entries)
  /\ Len(mOut.entries) = 2
  /\ SourceOf(mOut.entries[1]).id = 1
  /\ mOut.entries[1].messageId # mSentIds[1]

\* ------------------------------------------ the first-turn request's claims

\* A run request was built.
Built == cPc = "built" /\ cOut.kind \in {"main", "comparison"}

\* The field numbers of a message, in the order of its bytes.
FieldOrder(bytes) ==
  LET fs == parseProtoFields(bytes)
  IN  [i \in 1..Len(fs) |-> fs[i].fieldNumber]

\* A run request with the conversation state as an explicit empty field:
\* the bytes 0x0A 0x00 first, then the fields 2, 3 and 5.
HasEmptyConvState(req) ==
  /\ Len(req) >= 2
  /\ req[1] = 10
  /\ req[2] = 0
  /\ FieldOrder(req) = <<1, 2, 3, 5>>
  /\ parseProtoFields(req)[1].wireType = 2
  /\ parseProtoFields(req)[1].bytes = << >>

\* C20: every first-turn run request built carries the conversation state
\* (field 1) as an explicit empty length-delimited field, the bytes 0x0A
\* 0x00, ahead of the fields 2, 3 and 5.
C20_ConvStateAlwaysPresent ==
  Built => \A k \in 1..Len(cOut.requests) : HasEmptyConvState(cOut.requests[k])

\* The run request main() sends, and the first of the two the comparison
\* script builds, carry the field.
MainRequestHasConvState ==
  Built => HasEmptyConvState(cOut.requests[1])

\* The second run request of the comparison script starts with field 2
\* and is two bytes shorter than the first.
SkippingRequestOmitsConvState ==
  (Built /\ cOut.kind = "comparison") =>
    /\ FieldOrder(cOut.requests[2]) = <<2, 3, 5>>
    /\ cOut.requests[2][1] = 18
    /\ cOut.requests[1] = <<10, 0>> \o cOut.requests[2]
    /\ Len(cOut.messages[1]) = Len(cOut.messages[2]) + 2

\* ------------------------------------------------- the collector's claims

\* The contents of the text chunks among the first n chunks, one after
\* the other.
RECURSIVE TextOf(_, _)
TextOf(cs, n) ==
  IF n = 0 THEN << >>
  ELSE TextOf(cs, n - 1)
         \o (IF cs[n].type = "text" THEN cs[n].content ELSE << >>)

\* The positions of the chunks of a type.
ChunksOfType(t) == {i \in 1..Len(kChunks) : kChunks[i].type = t}

\* The first position in a non-empty set of positions.
First(S) == CHOOSE i \in S : \A j \in S : i <= j

\* C21: a caller whose stream holds no error chunk receives the text
\* chunks' contents concatenated in arrival order; a caller whose stream
\* holds an error chunk receives the first error, with its text or the
\* stand-in for a missing one, and no text.
C21_CollectTextOrError ==
  /\ kPc = "returned" =>
       /\ ChunksOfType("error") = {}
       /\ kReturn = [kind |-> "text", text |-> TextOf(kChunks, Len(kChunks))]
  /\ kPc = "thrown" =>
       /\ ChunksOfType("error") # {}
       /\ kPos = First(ChunksOfType("error"))
       /\ kReturn.kind = "error"
       /\ kReturn.message =
            (IF kChunks[kPos].error # << >> THEN kChunks[kPos].error
             ELSE UnknownStreamingError)
  /\ (kPc = "collecting" /\ kPos = Len(kChunks)) => ChunksOfType("error") = {}

\* C21 witness, the error case: text was collected, then an error chunk
\* came, and the caller holds the error alone.
C21_Witness ==
  /\ kPc = "thrown"
  /\ result = <<"a", "b", "c">>
  /\ kReturn = [kind |-> "error", message |-> <<"e">>]

\* C22: when a stream holds a tool call, the text collected is that of
\* the chunks before the first one, and the caller receives a tool-call
\* completion, not a text.
C22_StopsAtToolInvocation ==
  (kPc = "returned" /\ ChunksOfType("tool_call") # {}) =>
    /\ result = TextOf(kChunks, First(ChunksOfType("tool_call")) - 1)
    /\ kReturn.kind = "tool_call"

\* ---------------------------------------------- the bearer token's claims

\* The credential manager holds no token.
NoTokenStored == noToken(aToken)

\* C23: without a token every call ends in an error at once and sends
\* nothing: no request reaches the network without a bearer token.
C23_NoTokenFailsFast ==
  /\ NoTokenStored =>
       \A i \in 1..Len(aCalls) :
         /\ aCalls[i].outcome = "error"
         /\ aCalls[i].sent = << >>
  /\ \A i \in 1..Len(aNetwork) :
       aNetwork[i].authorization \in {"fresh", "expiring"}

\* Without a token main() and the test helper end in an error and send
\* nothing; with one, every request of main() carries it.
MainAndHelperFailFast ==
  \A i \in 1..Len(aCalls) :
    aCalls[i].entry \in {"main", "helper"} =>
      /\ NoTokenStored <=> aCalls[i].outcome = "error"
      /\ NoTokenStored => aCalls[i].sent = << >>
      /\ \A k \in 1..Len(aCalls[i].sent) :
           aCalls[i].sent[k].authorization = aToken

\* Without a token the interceptor passes the request on with no
\* authorization header.
InterceptorForwardsWithoutToken ==
  \A i \in 1..Len(aCalls) :
    (aCalls[i].entry = "interceptor" /\ NoTokenStored) =>
      /\ aCalls[i].outcome = "sent"
      /\ aCalls[i].sent = <<NetworkRequest("request", "absent")>>

\* ------------------------------------------------- the pipelines' claims

\* The pipelines that are under way.
UnderWay == {q \in Pipelines : pipes[q].pc \in {"begun", "looked"}}

\* C24: after any interleaving of the pipelines' lookups and puts, the
\* store holds exactly the Session each conversation's owner put last
\* (none lost, none overwritten by another pipeline), no two Sessions of
\* the store share a conversationId, no two pipelines under way hold the
\* same conversationId, and a lookup finds only the pipeline's own
\* Session.
C24_StoreKeepsEverySession ==
  /\ pStore = pWritten
  /\ \A s1, s2 \in pStore :
       s1.conversationId = s2.conversationId => s1 = s2
  /\ \A q, r \in UnderWay :
       pipes[q].conversationId = pipes[r].conversationId => q = r
  /\ \A q \in Pipelines :
       \A s \in pipes[q].found : s.conversationId = pipes[q].conversationId

\* C24 witness: every pipeline has put its Session, at least two of them
\* after a lookup made while the store was still empty, and the store
\* holds a Session of each.
C24_Witness ==
  /\ \A q \in Pipelines : pipes[q].pc = "done"
  /\ Cardinality({q \in Pipelines : pipes[q].snapshot = {}}) >= 2
  /\ \A q \in Pipelines : \E s \in pStore : s.owner = q

\* ---------------------------------------------------- cancellation's claim

\* C25: once the request is aborted, the read loop takes nothing more
\* from the connection, extracts no further frame and writes no further
\* text; what has been written is the text of the frames that had arrived
\* whole, and the bytes of a frame buffered in part are in no output.
C25_AbortStopsDecoding ==
  /\ [](pc = "aborted" =>
          /\ frames = WholeFrames(Delivered)
          /\ stdout = textDeltasOfFrames(frames)
          /\ trailers = trailerTexts(frames)
          /\ Wire(frames) \o fullBuffer = Delivered)
  /\ [][pc = "aborted" =>
          /\ pc' = "aborted"
          /\ pos' = pos
          /\ frames' = frames
          /\ stdout' = stdout
          /\ trailers' = trailers]_vars

\* C25 witness: the abort came after a text frame had been written out
\* and while a part of the next frame was buffered.
C25_Witness ==
  /\ pc = "aborted"
  /\ Len(frames) = 1
  /\ stdout # << >>
  /\ Len(fullBuffer) > 5
  /\ Len(sent) = 2

\* ------------------------------------------ the claims on anomalous frames

\* The frames extracted that are no error frames.
NonErrorFrames == SelectSeq(frames, LAMBDA f : ~IsErrorFrame(f.flags))

\* An error frame has been extracted.
ErrorFrameSeen == \E i \in 1..Len(frames) : IsErrorFrame(frames[i].flags)

\* C26: a frame with flag 0x02 ends the run with an error and its payload
\* is not read as a response message: the texts written are those of the
\* other frames.
C26_ErrorFrameIsError ==
  /\ stdout = textDeltasOfFrames(NonErrorFrames)
  /\ ErrorFrameSeen => pc = "error"

\* The texts written are those of all data frames, error frames
\* included, and an error frame leaves the loop reading.
ErrorFrameReadAsData ==
  /\ stdout = textDeltasOfFrames(frames)
  /\ pc \in {"reading", "done", "aborted", "maxChunks"}

\* The stream holds regular frames and frames with a field to skip.
SkippedFieldRun ==
  \A i \in 1..Len(sent) :
    sent[i] \in {HelloFrame} \cup GroupFrameKinds \cup UnknownFieldFrameKinds

\* The text delta the backend put in a frame of such a stream.
TextBehind(f) == IF f = HelloFrame THEN TextHello ELSE TextOk

\* C29: a field with an unknown number or an unsupported wire type is
\* skipped and the text delta behind it, in the same message and in the
\* frames after it, is written: every frame extracted has given its text.
C29_SkippedFieldKeepsRest ==
  SkippedFieldRun =>
    stdout = [i \in 1..Len(frames) |-> TextBehind(frames[i])]

\* A field with an unknown number is passed over and the text behind it
\* is written; a field of wire type 3 ends the decoding of its message,
\* whose text is lost; the frames after it are decoded.
WireTypeEndsMessage ==
  SkippedFieldRun =>
    LET read == SelectSeq(frames, LAMBDA f : f \notin GroupFrameKinds)
    IN  stdout = [i \in 1..Len(read) |-> TextBehind(read[i])]

\* A frame with a field cut short has been extracted.
TruncatedFrameSeen ==
  \E i \in 1..Len(frames) : frames[i] \in TruncatedFrameKinds

\* C30: a length-delimited field that declares more bytes than remain, or
\* a varint cut off at the end of the message, ends the run with an error,
\* and the shortened string is never written as if it were complete.
C30_TruncationIsError ==
  TruncatedFrameSeen =>
    /\ pc = "error"
    /\ \A i \in 1..Len(stdout) : stdout[i] # TextHi

\* What the decoders return at the end of the input: the bytes that are
\* left for a string that declares five, the value read so far for a
\* varint without its last byte; and the read loop goes on.
ShortenedValueReturned ==
  /\ parseProtoFields(<<10, 5>> \o TextHi)
       = <<[fieldNumber |-> 1, wireType |-> 2, bytes |-> TextHi, varint |-> 0,
            offset |-> 0, length |-> 7]>>
  /\ decodeVarint(<<172>>, 0) = [value |-> 44, bytesRead |-> 1]
  /\ TruncatedFrameSeen => pc \in {"reading", "done", "aborted", "maxChunks"}
  /\ \A i \in 1..Len(frames) :
       frames[i] = [flags |-> 0,
                    payload |-> encodeMessageField(1,
                                  encodeMessageField(1, <<10, 5>> \o TextHi))]
         => \E j \in 1..Len(stdout) : stdout[j] = TextHi

\* ------------------------------------------------ the frame loop's claims

\* The length bytes of the buffer's first header, read unsigned.
UnsignedLength ==
  LET b == cIn.buf
  IN  IF b[2] >= 128 THEN 2147483647
      ELSE b[2] * 16777216 + b[3] * 65536 + b[4] * 256 + b[5]

\* C33: the 4 length bytes are read unsigned: a header whose first length
\* byte is 0x80 or more is a frame of 2^31 bytes or more, incomplete until
\* that many bytes are buffered, so no frame is taken from these buffers;
\* and the read offset never moves backwards.
C33_LengthIsUnsigned ==
  /\ [](cIn.kind = "buffer" /\ cIn.buf[2] >= 128 => cOut.frames = << >>)
  /\ [][cIn.kind = "buffer" => cOut'.offset >= cOut.offset]_vars

\* The length is read signed: with a first length byte below 0x80 a frame
\* is taken when its bytes are there and the offset moves forward; with
\* 0x80 or more the frame is taken at once, whatever is buffered, and the
\* offset it leaves is inside the header or before it.
LengthIsSigned ==
  cIn.kind = "buffer" =>
    /\ cIn.buf[2] < 128 =>
         /\ Len(cOut.frames) <= 1
         /\ cOut.frames # << >> =>
              /\ UnsignedLength <= Len(cIn.buf) - 5
              /\ cOut.offset = 5 + UnsignedLength
    /\ (cIn.buf[2] >= 128 /\ cPc = "done") => cOut.frames # << >>
    /\ (cIn.buf[2] >= 128 /\ Len(cOut.frames) = 1) => cOut.offset <= 4

\* C36: the read loop always ends, whatever the backend sends: no pass of
\* the frame loop leaves the read offset where it found it (the pass after
\* it would be the same pass again, and so on for ever, with no read, no
\* timeout and no chunk limit to end the run).
C36_ReadLoopTerminates ==
  [][(cIn.kind = "buffer" /\ cPc = "framing" /\ cPc' = "framing")
       => cOut'.offset # cOut.offset]_vars

\* On streams of frames with lengths below 2^31 the run does end: by the
\* end of the stream, by the abort or at the chunk limit.
ReadLoopEnds == <>(pc \in {"done", "aborted", "maxChunks"})

\* The loop reads at most one chunk beyond the limit.
ChunkLimit ==
  /\ chunks <= MaxChunks + 1
  /\ (pc = "reading") => chunks <= MaxChunks

\* ------------------------------------------- the credential manager's claim

\* The credentials stored in the auth file.
Stored == IF authFile = NoFile THEN NoCredentials ELSE authFile

\* C35: whatever was called before, getAllCredentials returns exactly the
\* access token, the refresh token and the API key stored in the auth
\* file, the API key also when the cache was filled by getAccessToken or
\* getRefreshToken.
C35_AllCredentialsAreStored ==
  credCall.name = "getAllCredentials" => credCall.returned = Stored

\* The two tokens returned are always the stored ones; the API key
\* returned is the stored one or none, and never none once getApiKey,
\* setAuthentication or a getAllCredentials that read the file has cached
\* it.
AllCredentialsButApiKey ==
  /\ cachedApiKey \in {Null, Stored.apiKey}
  /\ credCall.name = "getAllCredentials" =>
       /\ credCall.returned.accessToken = Stored.accessToken
       /\ credCall.returned.refreshToken = Stored.refreshToken
       /\ credCall.returned.apiKey \in {Stored.apiKey, Undefined}
       /\ cachedApiKey # Null => credCall.returned.apiKey = Stored.apiKey

\* ------------------------------------------- the model-list parser's claim

\* C37: parsing the model-list response terminates for every byte string:
\* every pass of the inner loop moves modelPos forward by at least one
\* byte, every pass of the outer loop moves pos forward by at least one
\* byte (a pass that parsed a model ends no earlier than behind its tag).
C37_ParseAdvances ==
  [][cIn.kind = "models" =>
       /\ (cPc = "model" /\ cPc' = "model")
            => cOut'.modelPos > cOut.modelPos
       /\ (cPc = "parsing" /\ cPc' = "parsing")
            => cOut'.pos > cOut.pos
       /\ (cPc = "model" /\ cPc' = "parsing")
            => cOut'.pos >= cOut.pos]_vars

\* What does hold: the tag read at the head of an outer pass moves pos
\* forward.
TagReadAdvances ==
  [][(cIn.kind = "models" /\ cPc = "parsing" /\ cPc' = "model")
       => cOut'.pos > cOut.pos]_vars

\* The model whose declared length runs past the end of the data: the
\* inner loop has used up its passes at the end of the data without
\* reaching modelEnd.
ModelPastEndSpins ==
  /\ cIn.kind = "models"
  /\ cPc = "model"
  /\ cOut.passes = MaxPasses
  /\ cOut.modelPos = Len(cIn.buf)
  /\ cOut.modelEnd > Len(cIn.buf)

\* ------------------------------------------- the dynamic values' claim

\* C38: the dynamic-value encoder is injective: no other value of the runs
\* has the bytes the encoder gave for the run's value (null and the empty
\* string, maps that differ in an empty-string key or value included).
C38_EncoderInjective ==
  (cIn.kind = "value" /\ cPc \in {"encoded", "done"}) =>
    \A v \in ValuesDepth2 :
      encodeProtobufValue(v) = cOut.bytes => v = cIn.v

\* What does hold: the values other than null and the empty string never
\* encode to no bytes at all.
OnlyNullAndEmptyVanish ==
  (cIn.kind = "value" /\ cPc \in {"encoded", "done"}
     /\ cOut.bytes = << >>) =>
    \/ cIn.v.t = "null"
    \/ cIn.v.t = "str" /\ cIn.v.s = << >>

\* ------------------------------------------- the two varint decoders

\* The BigInt of a non-negative 32-bit number, as limbs.
limbsOfNumber(n) == <<n % LimbBase, n \div LimbBase, 0, 0, 0>>

\* C39: on the varint of every uint64 the Number-based decodeVarint gives
\* the value and the byte count the BigInt-based one gives: no wrap at 32
\* bits, no change of sign.
C39_NumberMatchesBigInt ==
  (cIn.kind = "varint" /\ cPc = "compared") =>
    /\ cOut.number.bytesRead = cOut.decoded.bytesRead
    /\ cOut.number.value >= 0
    /\ limbsOfNumber(cOut.number.value) = cOut.decoded.value

\* What does hold: the byte counts agree on every value, the values on
\* those below 2^31.
NumberMatchesBelow2Pow31 ==
  (cIn.kind = "varint" /\ cPc = "compared") =>
    /\ cOut.number.bytesRead = cOut.decoded.bytesRead
    /\ (cIn.u[2] < 32768 /\ cIn.u[3] = 0 /\ cIn.u[4] = 0) =>
         /\ cOut.number.value >= 0
         /\ limbsOfNumber(cOut.number.value) = cOut.decoded.value

\* ------------------------------------------- the status display's claim

\* The token of the run was masked.
Masked == cIn.kind = "token" /\ cPc = "done" /\ cIn.present
            /\ cIn.token # << >>

\* C40: maskToken never shows a whole token: some character is left out,
\* so another token of the same length, different in the hidden part only,
\* is shown as the same masked string.
C40_MaskHidesSomething ==
  Masked =>
    \E t \in TokensOfLength(Len(cIn.token)) :
      t # cIn.token /\ maskToken(TRUE, t) = cOut.text

\* What does hold: the same, for every length but 20; and a token of 20
\* characters is shown whole, around the three dots.
MaskHidesUnlessTwenty ==
  Masked =>
    IF Len(cIn.token) = 20
    THEN cOut.text = SubSeq(cIn.token, 1, 10) \o Chars(".", 3)
                       \o SubSeq(cIn.token, 11, 20)
    ELSE \E t \in TokensOfLength(Len(cIn.token)) :
           t # cIn.token /\ maskToken(TRUE, t) = cOut.text

====
